---- MODULE Spec2Model ----
\* A model of go-github-ratelimit: the secondary rate limiter (a cooldown guarded
\* by a read/write lock), the primary rate limiter (one atomic reset slot per
\* resource category, cleared by timers) and the response classifiers they use.
\*
\* Time is an integer count of ticks; one second is TicksPerSec ticks, so that
\* sub-second durations exist. Strings the code inspects by prefix, suffix or
\* digit are tuples of one-character strings.
EXTENDS Integers, Sequences, FiniteSets, Bags, TLC

\* ---------------------------------------------------------------- bounds
MaxTime == 5        \* the clock stops ticking at MaxTime
MaxForwards == 2    \* forwards to the inner transport per request

\* ---------------------------------------------------------------- time
TicksPerSec == 2    \* time.Second, in ticks
NoTime == -1        \* a nil *time.Time / nil *SecondsSinceEpoch
NoLimit == -1       \* a nil *time.Duration

Max(a, b) == IF a >= b THEN a ELSE b

\* ---------------------------------------------------------------- strings
HasPrefix(s, prefix) ==
    /\ Len(prefix) <= Len(s)
    /\ SubSeq(s, 1, Len(prefix)) = prefix

HasSuffix(s, suffix) ==
    /\ Len(suffix) <= Len(s)
    /\ SubSeq(s, Len(s) - Len(suffix) + 1, Len(s)) = suffix

Digits == <<"0","1","2","3","4","5","6","7","8","9">>

IsDigit(c) == \E i \in DOMAIN Digits : Digits[i] = c

DigitVal(c) == (CHOOSE i \in DOMAIN Digits : Digits[i] = c) - 1

RECURSIVE DigitsValue(_, _)
DigitsValue(s, acc) ==
    IF s = <<>> THEN acc ELSE DigitsValue(Tail(s), acc * 10 + DigitVal(Head(s)))

\* strconv.ParseInt(val, 10, 64) / strconv.Atoi: an optional sign, then one or
\* more decimal digits and nothing else (header texts here are far below 64 bits).
ParseInt(val) ==
    IF val = <<>> THEN [ok |-> FALSE, val |-> 0]
    ELSE LET signed == Head(val) \in {"+", "-"}
             ds == IF signed THEN Tail(val) ELSE val
         IN IF ds = <<>> \/ (\E i \in DOMAIN ds : ~IsDigit(ds[i]))
            THEN [ok |-> FALSE, val |-> 0]
            ELSE [ok |-> TRUE,
                  val |-> IF Head(val) = "-" THEN 0 - DigitsValue(ds, 0)
                          ELSE DigitsValue(ds, 0)]

\* httpHeaderIntValue: header.Get(key) is "" for a missing header
httpHeaderIntValue(val) ==
    IF val = <<>> THEN [ok |-> FALSE, val |-> 0] ELSE ParseInt(val)

\* ---------------------------------------------------------------- secondary classifier
SecondaryRateLimitMessage ==
    <<"Y","o","u"," ","h","a","v","e"," ","e","x","c","e","e","d","e","d"," ","a"," ","s","e","c","o","n","d","a","r","y"," ","r","a","t","e"," ","l","i","m","i","t">>

DocumentationSuffixes ==
    { <<"s","e","c","o","n","d","a","r","y","-","r","a","t","e","-","l","i","m","i","t","s">>,
      <<"#","a","b","u","s","e","-","r","a","t","e","-","l","i","m","i","t","s">> }

HasSecondaryRateLimitSuffix(documentation_url) ==
    \E suffix \in DocumentationSuffixes : HasSuffix(documentation_url, suffix)

\* a variant that takes every body with a message for a secondary limit
IsSecondaryRateLimitAnyMessage(body) == Len(body.message) > 0

\* SecondaryRateLimitBody.IsSecondaryRateLimit
IsSecondaryRateLimit(body) ==
    \/ HasPrefix(body.message, SecondaryRateLimitMessage)
    \/ HasSecondaryRateLimitSuffix(body.documentation_url)

LimitStatusCodes == {403, 429}

\* ---------------------------------------------------------------- body
\* The text of a body is the text of a JSON value, or no JSON at all. The values
\* looked at: an object with the members message and documentation_url (each a
\* string, a number, null or absent), an array, and null.
Member(type, text) == [type |-> type, text |-> text]
Str(text) == Member("string", text)
Absent == Member("absent", <<>>)

JSONObject(message, documentation_url) ==
    [kind |-> "object", message |-> message, documentation_url |-> documentation_url]
JSONOther(kind) == [kind |-> kind, message |-> Absent, documentation_url |-> Absent]
NotJSON == JSONOther("invalid")

\* the text of a value
Encode(v) ==
    LET value(m) == IF m.type = "string" THEN <<"\"">> \o m.text \o <<"\"">> ELSE m.text
        member(key, m) == IF m.type = "absent" THEN <<>>
                          ELSE <<"\"">> \o key \o <<"\"", ":">> \o value(m)
    IN CASE v.kind = "object" ->
               LET m == member(<<"m","e","s","s","a","g","e">>, v.message)
                   d == member(<<"d","o","c","u","m","e","n","t","a","t","i","o","n","_","u","r","l">>,
                               v.documentation_url)
               IN <<"{">> \o m \o (IF m # <<>> /\ d # <<>> THEN <<",">> ELSE <<>>) \o d
                          \o <<"}">>
         [] v.kind = "array" -> <<"[", "]">>
         [] v.kind = "null" -> <<"n","u","l","l">>
         [] v.kind = "invalid" -> <<"<","h","t","m","l",">">>

\* the texts of the members looked at
MessageTexts ==
    { SecondaryRateLimitMessage,
      SecondaryRateLimitMessage \o <<"."," ","W","a","i","t">>,
      <<"O","o","p","s",":"," ">> \o SecondaryRateLimitMessage,
      <<"s","l","o","w">>,
      <<"n","o","t"," ","a","s"," ","e","x","p","e","c","t","e","d">> }

DocumentationTexts ==
    { <<"/","r","e","s","t">> \o <<"#","a","b","u","s","e","-","r","a","t","e","-","l","i","m","i","t","s">>,
      <<"/","r","e","s","t","#">> \o <<"s","e","c","o","n","d","a","r","y","-","r","a","t","e","-","l","i","m","i","t","s">>,
      <<"s","e","c","o","n","d","a","r","y","-","r","a","t","e","-","l","i","m","i","t","s">> \o <<"/","v","2">> }

JSONValues ==
    { JSONObject(m, d) :
        m \in {Absent, Member("number", <<"5">>), Member("null", <<"n","u","l","l">>)}
              \cup {Str(t) : t \in MessageTexts},
        d \in {Absent, Member("number", <<"5">>)} \cup {Str(t) : t \in DocumentationTexts} }
    \cup {JSONOther("array"), JSONOther("null")}

\* the value a text is the text of
Parse(rawBody) ==
    IF \E v \in JSONValues : Encode(v) = rawBody
    THEN CHOOSE v \in JSONValues : Encode(v) = rawBody
    ELSE NotJSON

\* a variant that decodes what it can and reports no error
UnmarshalLenient(rawBody) ==
    LET v == Parse(rawBody)
    IN [err |-> FALSE, message |-> v.message.text,
        documentation_url |-> v.documentation_url.text]

\* json.Unmarshal(rawBody, &body) into SecondaryRateLimitBody: an error for
\* a text that is no JSON, for a value other than an object or null, and for a
\* member that is neither a string nor null; null and a missing member leave
\* the field empty
Unmarshal(rawBody) ==
    LET v == Parse(rawBody)
        string(m) == IF m.type = "string" THEN m.text ELSE <<>>
    IN IF \/ v.kind \in {"invalid", "array"}
          \/ v.message.type = "number"
          \/ v.documentation_url.type = "number"
       THEN [err |-> TRUE, message |-> <<>>, documentation_url |-> <<>>]
       ELSE [err |-> FALSE, message |-> string(v.message),
             documentation_url |-> string(v.documentation_url)]

\* resp.Body as the inner transport returns it: nothing read, not closed
BodyOf(resp) == [unread |-> resp.body.text, closed |-> FALSE]

\* io.ReadAll(resp.Body): the bytes not yet read, and the body drained; a body
\* that fails gives an error
ReadAll(resp) ==
    [rawBody |-> BodyOf(resp).unread, err |-> resp.body.readErr]

\* a variant that leaves the drained body in place
NewReaderDrained(rawBody) == [unread |-> SubSeq(rawBody, 1, 0), closed |-> TRUE]

\* io.NopCloser(bytes.NewReader(rawBody))
NewReader(rawBody) == [unread |-> rawBody, closed |-> FALSE]

\* a variant that takes every response for a candidate
inspectedAnyStatus(resp) == resp.status > 0

\* isSecondaryRateLimit up to the body: whether the response is a candidate,
\* of a limit status and not a primary rate limit (the responses here have a
\* header map, so the check for a nil one never applies)
inspected(resp) ==
    /\ resp.status \in LimitStatusCodes
    /\ LET remaining == httpHeaderIntValue(resp.remaining)
       IN ~(remaining.ok /\ remaining.val = 0)

\* A response is [status, retryAfter, reset, remaining, resource, body]; a header
\* is its text (<<>> when missing); body is [readErr, text].
isSecondaryRateLimit(resp) ==
    IF ~inspected(resp) THEN FALSE
    ELSE IF ReadAll(resp).err THEN FALSE
    ELSE LET body == Unmarshal(ReadAll(resp).rawBody)
         IN IF body.err THEN FALSE
            ELSE IsSecondaryRateLimit(body)

\* resp.Body when isSecondaryRateLimit has returned: untouched unless the
\* response is a candidate; then drained and closed (the deferred Close is of
\* the body as it was), and replaced by a reader of the bytes read unless the
\* read failed
bodyAfter(resp) ==
    IF ~inspected(resp) THEN BodyOf(resp)
    ELSE IF ReadAll(resp).err THEN [unread |-> <<>>, closed |-> TRUE]
    ELSE NewReader(ReadAll(resp).rawBody)

\* a variant of parseRetryAfter that takes a retry-after of 0 seconds
parseRetryAfterNonNegative(resp, t) ==
    LET retryAfterSeconds == httpHeaderIntValue(resp.retryAfter)
    IN IF ~retryAfterSeconds.ok \/ retryAfterSeconds.val < 0 THEN NoTime
       ELSE t + retryAfterSeconds.val * TicksPerSec

\* parseRetryAfter at clock reading t
parseRetryAfter(resp, t) ==
    LET retryAfterSeconds == httpHeaderIntValue(resp.retryAfter)
    IN IF ~retryAfterSeconds.ok \/ retryAfterSeconds.val <= 0 THEN NoTime
       ELSE t + retryAfterSeconds.val * TicksPerSec

parseXRateLimitReset(resp) ==
    LET secondsSinceEpoch == httpHeaderIntValue(resp.reset)
    IN IF ~secondsSinceEpoch.ok \/ secondsSinceEpoch.val <= 0 THEN NoTime
       ELSE secondsSinceEpoch.val * TicksPerSec

\* a variant of parseSecondaryLimitTime that tries x-ratelimit-reset first
parseSecondaryLimitTimeResetFirst(resp, t) ==
    IF ~isSecondaryRateLimit(resp) THEN NoTime
    ELSE IF parseXRateLimitReset(resp) # NoTime THEN parseXRateLimitReset(resp)
    ELSE parseRetryAfter(resp, t)

\* parseSecondaryLimitTime at clock reading t: the reset instant, or NoTime
parseSecondaryLimitTime(resp, t) ==
    IF ~isSecondaryRateLimit(resp) THEN NoTime
    ELSE IF parseRetryAfter(resp, t) # NoTime THEN parseRetryAfter(resp, t)
    ELSE parseXRateLimitReset(resp)

\* ---------------------------------------------------------------- secondary config
\* callbacks are named; "nil" is the nil callback
ZeroConfig ==
    [singleSleepLimit |-> NoLimit, totalSleepLimit |-> NoLimit,
     onLimitDetected |-> "nil", onSingleLimitExceeded |-> "nil",
     onTotalLimitExceeded |-> "nil"]

WithLimitDetectedCallback(c, callback) == [c EXCEPT !.onLimitDetected = callback]

WithSingleSleepLimit(c, limit, callback) ==
    [c EXCEPT !.singleSleepLimit = limit, !.onSingleLimitExceeded = callback]

\* The option returned by WithNoSleep builds a WithSingleSleepLimit(0, callback)
\* option and drops it without applying it to c.
WithNoSleep(c, callback) == c

WithTotalSleepLimit(c, limit, callback) ==
    [c EXCEPT !.totalSleepLimit = limit, !.onTotalLimitExceeded = callback]

\* an option is [opt, limit, callback]
ApplyOption(c, o) ==
    CASE o.opt = "WithLimitDetectedCallback" -> WithLimitDetectedCallback(c, o.callback)
      [] o.opt = "WithSingleSleepLimit" -> WithSingleSleepLimit(c, o.limit, o.callback)
      [] o.opt = "WithNoSleep" -> WithNoSleep(c, o.callback)
      [] o.opt = "WithTotalSleepLimit" -> WithTotalSleepLimit(c, o.limit, o.callback)

RECURSIVE ApplyOptions(_, _)
ApplyOptions(c, opts) ==
    IF opts = <<>> THEN c ELSE ApplyOptions(ApplyOption(c, Head(opts)), Tail(opts))

newConfig(opts) == ApplyOptions(ZeroConfig, opts)

\* variants of IsAboveSingleSleepLimit that the properties below tell apart from
\* it: one that is also above the limit at the limit, one that reads a zero
\* limit as no limit
IsAboveSingleSleepLimitAtLimit(c, sleepTime) ==
    c.singleSleepLimit # NoLimit /\ sleepTime >= c.singleSleepLimit

IsAboveSingleSleepLimitZeroUnset(c, sleepTime) ==
    c.singleSleepLimit # NoLimit /\ c.singleSleepLimit # 0
        /\ sleepTime > c.singleSleepLimit

IsAboveSingleSleepLimit(c, sleepTime) ==
    c.singleSleepLimit # NoLimit /\ sleepTime > c.singleSleepLimit

IsAboveTotalSleepLimit(c, sleepTime, total) ==
    c.totalSleepLimit # NoLimit /\ total + sleepTime > c.totalSleepLimit

\* a variant that takes the smoothed sleep off the total
smoothSleepTimeRefunded(sleepTime) ==
    0 - (((sleepTime \div TicksPerSec) + 1) * TicksPerSec)

\* smoothSleepTime: Milliseconds() truncates to whole milliseconds; Seconds() is
\* a float and time.Duration(seconds) truncates it, so the result is
\* floor(sleepTime/second + 1) seconds. A tick is a whole number of milliseconds.
smoothSleepTime(sleepTime) ==
    IF sleepTime = 0 THEN sleepTime
    ELSE ((sleepTime \div TicksPerSec) + 1) * TicksPerSec

\* ---------------------------------------------------------------- responses
Body(readErr, v) == [readErr |-> readErr, text |-> Encode(v)]

SecondaryBody ==
    Body(FALSE, JSONObject(Str(SecondaryRateLimitMessage \o <<"."," ","W","a","i","t">>),
                           Absent))

AbuseDocBody ==
    Body(FALSE, JSONObject(Str(<<"s","l","o","w">>),
                           Str(<<"/","r","e","s","t">> \o <<"#","a","b","u","s","e","-","r","a","t","e","-","l","i","m","i","t","s">>)))

OtherBody ==
    Body(FALSE, JSONObject(Str(<<"n","o","t"," ","a","s"," ","e","x","p","e","c","t","e","d">>),
                           Absent))

Response(status, retryAfter, reset, remaining, resource, body) ==
    [status |-> status, retryAfter |-> retryAfter, reset |-> reset,
     remaining |-> remaining, resource |-> resource, body |-> body]

\* what is drawn for the operation looked at: the response under
\* classification, the only one the inner transport serves, or the lists that
\* New and WithOverrideConfig are called with
VARIABLE input

\* The responses the inner transport may return, by name. The header values
\* retry-after, x-ratelimit-reset and x-ratelimit-remaining are texts; the value
\* of x-ratelimit-resource is only ever compared as a whole.
ResponseOf(id) ==
    CASE id = "ok"       -> Response(200, <<>>, <<>>, <<"5">>, "core", OtherBody)
      [] id = "sec1"     -> Response(403, <<"1">>, <<>>, <<>>, "", SecondaryBody)
      [] id = "sec2"     -> Response(429, <<"2">>, <<>>, <<"5">>, "", AbuseDocBody)
      [] id = "secAbs"   -> Response(403, <<>>, <<"2">>, <<>>, "", SecondaryBody)
      [] id = "sec0"     -> Response(403, <<"0">>, <<>>, <<>>, "", SecondaryBody)
      [] id = "other403" -> Response(403, <<>>, <<>>, <<"5">>, "core", OtherBody)
      [] id = "priCore1" -> Response(403, <<>>, <<"1">>, <<"0">>, "core", OtherBody)
      [] id = "priCore2" -> Response(429, <<>>, <<"2">>, <<"0">>, "core", OtherBody)
      [] id = "priSearch1" -> Response(403, <<>>, <<"1">>, <<"0">>, "search", OtherBody)
      [] id = "priUnknown" -> Response(403, <<>>, <<"1">>, <<"0">>, "copilot", OtherBody)
      [] id = "priNoCategory" -> Response(429, <<>>, <<"2">>, <<"0">>, "", OtherBody)
      [] id = "priBadReset" -> Response(403, <<>>, <<"x">>, <<"0">>, "core", OtherBody)
      [] id = "ok0"      -> Response(200, <<>>, <<"1">>, <<"0">>, "core", OtherBody)
      [] id = "rem00"    -> Response(403, <<>>, <<"1">>, <<"0","0">>, "core", OtherBody)
      [] id = "secCore"  -> Response(403, <<"1">>, <<>>, <<"5">>, "core", SecondaryBody)
      [] id = "forbidden" -> Response(403, <<"1">>, <<>>, <<"5">>, "core", OtherBody)
      [] id = "input"    -> input     \* the response under classification

SecondaryTransportResponses == {"ok", "sec1"}

\* the responses the inner transport may give to each request of the primary limiter
PrimaryTransportResponses(r) ==
    CASE r = "p1" -> {"ok", "priCore1", "rem00", "ok0"}
      [] r = "p2" -> {"other403", "priCore2", "priUnknown", "priBadReset"}
      [] r = "p3" -> {"ok", "priSearch1", "priNoCategory"}

\* ---------------------------------------------------------------- primary: categories
AllCategories ==
    {"core", "search", "code_search", "graphql", "source_import", "audit_log",
     "integration_manifest", "dependency_snapshots", "code_scanning_upload",
     "actions_runner_registration", "scim"}

\* a variant of parseCategory that applies every rule to every method
parseCategoryAnyMethod(method, path) ==
    IF HasPrefix(path, <<"/","s","e","a","r","c","h","/","c","o","d","e">>) THEN "code_search"
    ELSE IF HasPrefix(path, <<"/","s","e","a","r","c","h">>) THEN "search"
    ELSE IF HasPrefix(path, <<"/","g","r","a","p","h","q","l">>) THEN "graphql"
    ELSE IF HasPrefix(path, <<"/","r","e","p","o","s","/">>) /\ HasSuffix(path, <<"/","i","m","p","o","r","t">>)
         THEN "source_import"
    ELSE IF HasSuffix(path, <<"/","a","u","d","i","t","_","l","o","g">>) THEN "audit_log"
    ELSE IF HasPrefix(path, <<"/","a","p","p","/","m","a","n","f","i","e","s","t","s","/">>)
                /\ HasSuffix(path, <<"/","c","o","n","v","e","r","s","i","o","n","s">>)
         THEN "integration_manifest"
    ELSE IF HasPrefix(path, <<"/","r","e","p","o","s","/">>)
                /\ HasSuffix(path, <<"/","d","e","p","e","n","d","e","n","c","y","-","g","r","a","p","h","/","s","n","a","p","s","h","o","t","s">>)
         THEN "dependency_snapshots"
    ELSE IF HasPrefix(path, <<"/","r","e","p","o","s","/">>)
                /\ HasSuffix(path, <<"/","c","o","d","e","-","s","c","a","n","n","i","n","g","/","s","a","r","i","f","s">>)
         THEN "code_scanning_upload"
    ELSE IF HasPrefix(path, <<"/","o","r","g","s","/">>)
                /\ HasSuffix(path, <<"/","a","c","t","i","o","n","s","/","r","u","n","n","e","r","s">>)
         THEN "actions_runner_registration"
    ELSE IF HasPrefix(path, <<"/","s","c","i","m">>) THEN "scim"
    ELSE "core"

\* parseCategory(method, path), path a text
parseCategory(method, path) ==
    IF HasPrefix(path, <<"/","s","e","a","r","c","h","/","c","o","d","e">>) THEN "code_search"
    ELSE IF HasPrefix(path, <<"/","s","e","a","r","c","h">>) THEN "search"
    ELSE IF HasPrefix(path, <<"/","g","r","a","p","h","q","l">>) THEN "graphql"
    ELSE IF HasPrefix(path, <<"/","r","e","p","o","s","/">>) /\ HasSuffix(path, <<"/","i","m","p","o","r","t">>)
         THEN "source_import"
    ELSE IF HasSuffix(path, <<"/","a","u","d","i","t","_","l","o","g">>) THEN "audit_log"
    ELSE IF method = "POST"
                /\ HasPrefix(path, <<"/","a","p","p","/","m","a","n","f","i","e","s","t","s","/">>)
                /\ HasSuffix(path, <<"/","c","o","n","v","e","r","s","i","o","n","s">>)
         THEN "integration_manifest"
    ELSE IF method = "POST"
                /\ HasPrefix(path, <<"/","r","e","p","o","s","/">>)
                /\ HasSuffix(path, <<"/","d","e","p","e","n","d","e","n","c","y","-","g","r","a","p","h","/","s","n","a","p","s","h","o","t","s">>)
         THEN "dependency_snapshots"
    ELSE IF method = "POST"
                /\ HasPrefix(path, <<"/","r","e","p","o","s","/">>)
                /\ HasSuffix(path, <<"/","c","o","d","e","-","s","c","a","n","n","i","n","g","/","s","a","r","i","f","s">>)
         THEN "code_scanning_upload"
    ELSE IF method = "POST"
                /\ HasPrefix(path, <<"/","o","r","g","s","/">>)
                /\ HasSuffix(path, <<"/","a","c","t","i","o","n","s","/","r","u","n","n","e","r","s">>)
         THEN "actions_runner_registration"
    ELSE IF method = "POST" /\ HasPrefix(path, <<"/","s","c","i","m">>) THEN "scim"
    ELSE "core"

\* parseRequestCategory: the category of request.URL.RawPath, which net/url
\* leaves empty unless the path has an escaping of its own
parseRequestCategory(request) == parseCategory(request.Method, request.RawPath)

\* ---------------------------------------------------------------- primary: responses
PrimaryLimitStatusCodes == {403, 429}

\* a variant of limitReached that does not look at the remaining header
limitReachedAnyRemaining(resp) == resp.status \in PrimaryLimitStatusCodes

\* a variant of limitReached that does not look at the status
limitReachedAnyStatus(resp) == resp.remaining = <<"0">>

\* ParsedResponse.limitReached: the remaining header is compared as a text
limitReached(resp) ==
    /\ resp.status \in PrimaryLimitStatusCodes
    /\ resp.remaining = <<"0">>

\* a variant of GetCatgory that falls back to core
GetCatgoryOrCore(resp) ==
    IF resp.resource \in AllCategories THEN resp.resource ELSE "core"

\* ParsedResponse.GetCatgory
GetCatgory(resp) == resp.resource

\* strconv.Atoi with its error dropped
Atoi(val) == LET p == ParseInt(val) IN IF p.ok THEN p.val ELSE 0

\* ParsedResponse.GetResetTime: seconds since the epoch, NoTime for nil
GetResetTime(resp) ==
    IF ~limitReached(resp) THEN NoTime ELSE Atoi(resp.reset)

\* a variant of AsTime that takes the seconds for ticks
AsTimeUnscaled(s) == s

\* SecondsSinceEpoch.AsTime
AsTime(s) == s * TicksPerSec

\* NewErrorResponse(request, category)
NewErrorResponse(request, category) ==
    [status |-> 403, retryAfter |-> <<>>, reset |-> <<>>, remaining |-> <<"0">>,
     resource |-> category, body |-> "empty", Request |-> request]

\* ---------------------------------------------------------------- primary: config
\* the zero Config; state names a RateLimitState ("nil": none yet)
ZeroPrimaryConfig ==
    [state |-> "nil", bypassLimit |-> FALSE, onLimitReached |-> "nil",
     onReuqestPrevented |-> "nil", onLimitReset |-> "nil",
     onUnknownCategory |-> "nil"]

\* a primary option is [opt, callback], or [opt, callback, state] for
\* WithSharedState
PrimaryOpt(opt, callback) == [opt |-> opt, callback |-> callback]

SharedStateOpt(state) ==
    [opt |-> "WithSharedState", callback |-> "nil", state |-> state]

\* a variant of WithSharedState that leaves the config as it is
WithSharedStateDropped(c, state) == c

\* WithSharedState(state), applied to c
WithSharedState(c, state) == [c EXCEPT !.state = state]

\* a variant of WithBypassLimit that leaves the config as it is
WithBypassLimitDropped(c) == c

\* WithBypassLimit(), applied to c
WithBypassLimit(c) == [c EXCEPT !.bypassLimit = TRUE]

ApplyPrimaryOption(c, o) ==
    CASE o.opt = "WithLimitDetectedCallback" -> [c EXCEPT !.onLimitReached = o.callback]
      [] o.opt = "WithRequestPreventedCallback" ->
            [c EXCEPT !.onReuqestPrevented = o.callback]
      [] o.opt = "WithLimitResetCallback" -> [c EXCEPT !.onLimitReset = o.callback]
      [] o.opt = "WithUnknownCategoryCallback" ->
            [c EXCEPT !.onUnknownCategory = o.callback]
      [] o.opt = "WithSharedState" -> WithSharedState(c, o.state)
      [] o.opt = "WithBypassLimit" -> WithBypassLimit(c)

RECURSIVE ApplyPrimaryOptions(_, _)
ApplyPrimaryOptions(c, opts) ==
    IF opts = <<>> THEN c
    ELSE ApplyPrimaryOptions(ApplyPrimaryOption(c, Head(opts)), Tail(opts))

\* newConfig: without a state from the options, the config gets a state of
\* its own, NewRateLimitState(GetAllCategories()), named fresh
newPrimaryConfig(opts, fresh) ==
    LET c == ApplyPrimaryOptions(ZeroPrimaryConfig, opts)
    IN IF c.state = "nil" THEN [c EXCEPT !.state = fresh] ELSE c

\* ---------------------------------------------------------------- state
Reqs == {"r1", "r2"}
NoReq == "none"

VARIABLES
    now,             \* the clock, in ticks
    options,         \* the options the secondary limiter was built with
    config,          \* SecondaryRateLimiter.config
    resetTime,       \* SecondaryRateLimiter.resetTime
    totalSleepTime,  \* SecondaryRateLimiter.totalSleepTime
    lock,            \* the holder of the write side of SecondaryRateLimiter.lock
    pc,              \* where each RoundTrip is
    cancelled,       \* whether the request's context is done
    overrides,       \* the config overrides the request's context carries
    wakeAt,          \* when the pre-wait timer of the request fires
    resp,            \* the response the request holds
    secondaryLimit,  \* the reset instant parsed from it
    forwards,        \* how many times the request went to the inner transport
    result,          \* what RoundTrip returned
    called,          \* the callbacks the last step ran, with their contexts
    readReset,       \* history: resetTime as read by the pre-wait the request is in
    commitOf,        \* history: the reset instant the request in flight committed last
    body,            \* resp.Body of the last response the request got
    stage,           \* how far the construction of the limiters got
    parsedCategory   \* what parseCategory returned for the method and path drawn

\* the primary limiter and the requests that go through it
PrimaryReqs == {"p1", "p2", "p3"}

VARIABLES
    primaryOptions,    \* the options the primary limiter was built with
    primaryConfig,     \* PrimaryRateLimiter.config
    primaryOverrides,  \* the config overrides the request's context carries
    slots,             \* RateLimitState.resetTimeMap: category -> reset, in seconds
    primaryOptionsB,   \* the options a second primary limiter was built with
    primaryConfigB,    \* its config
    slotsB,            \* the resetTimeMap of the state its newConfig would make
    via,               \* the primary limiter each request goes through
    timers,            \* the reset goroutines that wait on their timers, a bag
    primaryPc,         \* where each RoundTrip of the primary limiter is
    primaryResult,     \* what it returned
    roundTrips,        \* how many times RoundTrip was called
    prevented,         \* history: onRequestPrevented ran in this RoundTrip
    afterReset,        \* history: no RoundTrip read the slot since its timer fired
    firstAfterReset    \* history: this RoundTrip is the first one that did

primaryVars == <<primaryOptions, primaryConfig, primaryOverrides, slots,
                 primaryOptionsB, primaryConfigB, slotsB, via, timers,
                 primaryPc, primaryResult, roundTrips, prevented, afterReset,
                 firstAfterReset>>

secondaryVars == <<options, config, resetTime, totalSleepTime, lock, pc, cancelled,
                   overrides, wakeAt, resp, secondaryLimit, forwards, result,
                   readReset, commitOf, body, input, stage, parsedCategory>>

vars == <<now, called, secondaryVars, primaryVars>>

Opt(opt, limit, callback) == [opt |-> opt, limit |-> limit, callback |-> callback]

Detected == Opt("WithLimitDetectedCallback", 0, "cbDetected")
NoOverrides == [r \in Reqs |-> <<>>]

\* The limiters and requests looked at: the options the limiter is built with
\* (limits in ticks) and the overrides each request's context carries
\* (WithOverrideConfig; <<>> is none).
Scenarios ==
    { [options |-> <<Detected>>, overrides |-> NoOverrides],
      [options |-> <<Detected, Opt("WithSingleSleepLimit", TicksPerSec \div 2, "cbSingle")>>,
       overrides |-> NoOverrides],
      [options |-> <<Detected, Opt("WithSingleSleepLimit", 0, "cbSingle")>>,
       overrides |-> NoOverrides],
      [options |-> <<Detected, Opt("WithNoSleep", 0, "cbNoSleep")>>,
       overrides |-> NoOverrides],
      [options |-> <<Detected, Opt("WithTotalSleepLimit", TicksPerSec + 1, "cbTotal")>>,
       overrides |-> NoOverrides],
      [options |-> <<Detected, Opt("WithSingleSleepLimit", 2 * TicksPerSec, "cbSingle")>>,
       overrides |-> [NoOverrides EXCEPT
                        !["r2"] = <<Opt("WithSingleSleepLimit", 0, "cbOverride")>>]] }

\* the requests whose context may be cancelled
Cancellable == {"r2"}

NoResult == [kind |-> "none", resp |-> "none"]
NoBody == [unread |-> <<>>, closed |-> TRUE]
NoInput == "none"
NoCategory == "none"

\* the primary limiters and requests looked at
AllCallbacks ==
    << PrimaryOpt("WithLimitDetectedCallback", "cbReached"),
       PrimaryOpt("WithRequestPreventedCallback", "cbPrevented"),
       PrimaryOpt("WithLimitResetCallback", "cbReset"),
       PrimaryOpt("WithUnknownCategoryCallback", "cbUnknown") >>

NoPrimaryOverrides == [r \in PrimaryReqs |-> <<>>]

PrimaryScenarios ==
    { [options |-> AllCallbacks, overrides |-> NoPrimaryOverrides],
      [options |-> AllCallbacks,
       overrides |-> [NoPrimaryOverrides EXCEPT
                        !["p3"] = <<PrimaryOpt("WithBypassLimit", "nil")>>]] }

\* the requests: a path without an escaping of its own has an empty RawPath
RequestOf(r) ==
    CASE r = "p1" -> [Method |-> "GET", Path |-> <<"/","s","e","a","r","c","h">>, RawPath |-> <<>>]
      [] r = "p2" -> [Method |-> "GET", Path |-> <<"/","u","s","e","r">>, RawPath |-> <<>>]
      [] r = "p3" -> [Method |-> "GET", Path |-> <<"/","s","e","a","r","c","h","/","a","/","b">>,
                      RawPath |-> <<"/","s","e","a","r","c","h","/","a","%","2","F","b">>]

NoPrimaryResult == [kind |-> "none"]

\* github_secondary_ratelimit.New(base, opts...) with the options of sc
InitSecondaryLimiter(sc) ==
    /\ options = sc.options /\ overrides = sc.overrides
    /\ config = newConfig(options)
    /\ resetTime = NoTime
    /\ totalSleepTime = 0
    /\ lock = NoReq
    /\ pc = [r \in Reqs |-> "idle"]
    /\ cancelled = [r \in Reqs |-> FALSE]
    /\ wakeAt = [r \in Reqs |-> 0]
    /\ resp = [r \in Reqs |-> "none"]
    /\ secondaryLimit = [r \in Reqs |-> NoTime]
    /\ forwards = [r \in Reqs |-> 0]
    /\ result = [r \in Reqs |-> NoResult]
    /\ readReset = [r \in Reqs |-> NoTime]
    /\ commitOf = [r \in Reqs |-> NoTime]
    /\ body = [r \in Reqs |-> NoBody]

\* github_primary_ratelimit.New(base, opts...) with the options of sc;
\* NewRateLimitState(GetAllCategories()) has an empty slot for every category
InitLimiterA(sc) ==
    /\ primaryOptions = sc.options /\ primaryOverrides = sc.overrides
    /\ primaryConfig = newPrimaryConfig(primaryOptions, "rateLimiterA")
    /\ slots = [c \in AllCategories |-> NoTime]
    /\ timers = EmptyBag
    /\ primaryPc = [r \in PrimaryReqs |-> "idle"]
    /\ primaryResult = [r \in PrimaryReqs |-> NoPrimaryResult]
    /\ roundTrips = 0
    /\ prevented = [r \in PrimaryReqs |-> FALSE]
    /\ afterReset = [c \in AllCategories |-> FALSE]
    /\ firstAfterReset = [r \in PrimaryReqs |-> FALSE]

\* rateLimiterB := New(base, opts...), and the requests that go through it
InitLimiterB(opts, reqs) ==
    /\ primaryOptionsB = opts
    /\ primaryConfigB = newPrimaryConfig(primaryOptionsB, "rateLimiterB")
    /\ slotsB = [c \in AllCategories |-> NoTime]
    /\ via = [r \in PrimaryReqs |->
                IF r \in reqs THEN "rateLimiterB" ELSE "rateLimiterA"]

\* one primary limiter: the second one is there, and no request goes through it
InitPrimaryLimiter(sc) == InitLimiterA(sc) /\ InitLimiterB(<<>>, {})

\* a secondary limiter of Scenarios; the primary limiter is not called
Init ==
    /\ now = 0
    /\ called = <<>>
    /\ input = NoInput
    /\ stage = "built"
    /\ parsedCategory = NoCategory
    /\ \E sc \in Scenarios : InitSecondaryLimiter(sc)
    /\ InitPrimaryLimiter([options |-> AllCallbacks, overrides |-> NoPrimaryOverrides])

\* a primary limiter of PrimaryScenarios; the secondary limiter is not called
InitPrimary ==
    /\ now = 0
    /\ called = <<>>
    /\ input = NoInput
    /\ stage = "built"
    /\ parsedCategory = NoCategory
    /\ InitSecondaryLimiter([options |-> <<Detected>>, overrides |-> NoOverrides])
    /\ \E sc \in PrimaryScenarios : InitPrimaryLimiter(sc)

\* PrimaryRateLimiter.GetState, of a limiter with config c
GetState(c) == c.state

\* the callbacks of the second limiter
AllCallbacksB ==
    << PrimaryOpt("WithLimitDetectedCallback", "cbReachedB"),
       PrimaryOpt("WithRequestPreventedCallback", "cbPreventedB"),
       PrimaryOpt("WithLimitResetCallback", "cbResetB"),
       PrimaryOpt("WithUnknownCategoryCallback", "cbUnknownB") >>

\* the requests that go through the second limiter
ViaB == {"p2", "p3"}

\* two primary limiters: rateLimiterA, and rateLimiterB built with or without
\* WithSharedState(rateLimiterA.GetState())
InitShared ==
    /\ now = 0
    /\ called = <<>>
    /\ input = NoInput
    /\ stage = "built"
    /\ parsedCategory = NoCategory
    /\ InitSecondaryLimiter([options |-> <<Detected>>, overrides |-> NoOverrides])
    /\ InitLimiterA([options |-> AllCallbacks, overrides |-> NoPrimaryOverrides])
    /\ \E shared \in BOOLEAN :
          InitLimiterB(IF shared
                       THEN AllCallbacksB \o
                            <<SharedStateOpt(GetState(
                                newPrimaryConfig(AllCallbacks, "rateLimiterA")))>>
                       ELSE AllCallbacksB,
                       ViaB)

\* ---------------------------------------------------------------- secondary limiter
\* a variant that takes the config of the limiter for every request
getRequestConfigBase(r) == config

\* getRequestConfig: the base config, overlaid by the request's overrides
getRequestConfig(r) ==
    IF overrides[r] = <<>> THEN config ELSE ApplyOptions(config, overrides[r])

\* a variant that reads time.Since where the code reads time.Until
currentSleepDurationSince ==
    IF resetTime = NoTime THEN 0 ELSE now - resetTime

\* currentSleepDurationUnlocked: time.Until(*t.resetTime), 0 when nil
currentSleepDurationUnlocked ==
    IF resetTime = NoTime THEN 0 ELSE resetTime - now

\* a variant whose context holds the total as it was when the lock was taken
triggerCallbackStaleTotal(callback, r, newResetTime, total) ==
    IF callback = "nil" THEN <<>>
    ELSE << [callback |-> callback, Request |-> r, Response |-> resp[r],
             ResetTime |-> newResetTime, TotalSleepTime |-> totalSleepTime] >>

\* triggerCallback: a nil callback is skipped; the others get a CallbackContext
\* (TotalSleepTime points at t.totalSleepTime, whose value at the call is total)
triggerCallback(callback, r, newResetTime, total) ==
    IF callback = "nil" THEN <<>>
    ELSE << [callback |-> callback, Request |-> r, Response |-> resp[r],
             ResetTime |-> newResetTime, TotalSleepTime |-> total] >>

limiter == <<resetTime, totalSleepTime, lock>>
built == <<options, config, overrides, input, stage, parsedCategory>>

\* a caller invokes RoundTrip with a request
Call(r) ==
    /\ pc[r] = "idle"
    /\ pc' = [pc EXCEPT ![r] = "wait"]
    /\ called' = <<>>
    /\ UNCHANGED <<now, built, limiter, cancelled, wakeAt, resp, secondaryLimit,
                   forwards, result, readReset, commitOf>>
    /\ UNCHANGED <<body, primaryVars>>

\* a variant whose pre-wait does not sleep
WaitForRateLimitNoSleep(r) ==
    /\ pc[r] = "wait"
    /\ lock = NoReq
    /\ wakeAt' = [wakeAt EXCEPT ![r] = now]
    /\ readReset' = [readReset EXCEPT ![r] = resetTime]
    /\ pc' = [pc EXCEPT ![r] = "sleep"]
    /\ called' = <<>>
    /\ UNCHANGED <<now, built, limiter, cancelled, resp, secondaryLimit, forwards,
                   result, commitOf>>
    /\ UNCHANGED <<body, primaryVars>>

\* a variant that reads the sleep duration without the read lock
WaitForRateLimitNoRLock(r) ==
    /\ pc[r] = "wait"
    /\ wakeAt' = [wakeAt EXCEPT ![r] = now + Max(currentSleepDurationUnlocked, 0)]
    /\ readReset' = [readReset EXCEPT ![r] = resetTime]
    /\ pc' = [pc EXCEPT ![r] = "sleep"]
    /\ called' = <<>>
    /\ UNCHANGED <<now, built, limiter, cancelled, resp, secondaryLimit, forwards,
                   result, commitOf>>
    /\ UNCHANGED <<body, primaryVars>>

\* waitForRateLimit, the read: RLock, read the sleep duration, RUnlock, and start
\* the timer of sleepWithContext (a timer of a duration <= 0 fires at once)
WaitForRateLimit(r) ==
    /\ pc[r] = "wait"
    /\ lock = NoReq
    /\ wakeAt' = [wakeAt EXCEPT ![r] = now + Max(currentSleepDurationUnlocked, 0)]
    /\ readReset' = [readReset EXCEPT ![r] = resetTime]
    /\ pc' = [pc EXCEPT ![r] = "sleep"]
    /\ called' = <<>>
    /\ UNCHANGED <<now, built, limiter, cancelled, resp, secondaryLimit, forwards,
                   result, commitOf>>
    /\ UNCHANGED <<body, primaryVars>>

\* a variant in which sleepWithContext waits for its timer only
ForwardedAfterTimer(r) ==
    /\ pc[r] = "sleep"
    /\ now >= wakeAt[r]
    /\ forwards[r] < MaxForwards
    /\ forwards' = [forwards EXCEPT ![r] = @ + 1]
    /\ wakeAt' = [wakeAt EXCEPT ![r] = 0]
    /\ readReset' = [readReset EXCEPT ![r] = NoTime]

\* sleepWithContext returns, because the timer fired or the context is done (the
\* error is dropped), and the request goes to t.Base.RoundTrip
Forwarded(r) ==
    /\ pc[r] = "sleep"
    /\ now >= wakeAt[r] \/ cancelled[r]
    /\ forwards[r] < MaxForwards
    /\ forwards' = [forwards EXCEPT ![r] = @ + 1]
    /\ wakeAt' = [wakeAt EXCEPT ![r] = 0]
    /\ readReset' = [readReset EXCEPT ![r] = NoTime]

\* a variant that returns an error of its own instead of a secondary limit
ReturnLimitError(r, kind, id) ==
    /\ result' = [result EXCEPT ![r] =
                     IF kind = "response" /\ ResponseOf(id).status \in LimitStatusCodes
                     THEN [kind |-> "error", resp |-> id]
                     ELSE [kind |-> kind, resp |-> id]]
    /\ resp' = [resp EXCEPT ![r] = "none"]
    /\ secondaryLimit' = [secondaryLimit EXCEPT ![r] = NoTime]
    /\ commitOf' = [commitOf EXCEPT ![r] = NoTime]
    /\ pc' = [pc EXCEPT ![r] = "done"]

\* the request returns to its caller
Return(r, kind, id) ==
    /\ result' = [result EXCEPT ![r] = [kind |-> kind, resp |-> id]]
    /\ resp' = [resp EXCEPT ![r] = "none"]
    /\ secondaryLimit' = [secondaryLimit EXCEPT ![r] = NoTime]
    /\ commitOf' = [commitOf EXCEPT ![r] = NoTime]
    /\ pc' = [pc EXCEPT ![r] = "done"]

\* the pre-wait ends and t.Base.RoundTrip(request) fails: the error is returned
BaseError(r) ==
    /\ Forwarded(r)
    /\ Return(r, "error", "none")
    /\ body' = [body EXCEPT ![r] = NoBody]
    /\ called' = <<>>
    /\ UNCHANGED <<now, built, limiter, cancelled>>
    /\ UNCHANGED primaryVars

\* t.Base.RoundTrip(request) has returned a response, which
\* parseSecondaryLimitTime classifies, reading and restoring its body: it is
\* returned as is unless it is a secondary limit with a reset instant (reset
\* instants lie within the horizon)
Received(r, id) ==
    /\ LET limit == parseSecondaryLimitTime(ResponseOf(id), now)
       IN /\ limit <= MaxTime
          /\ IF limit = NoTime
             THEN Return(r, "response", id)
             ELSE /\ resp' = [resp EXCEPT ![r] = id]
                  /\ secondaryLimit' = [secondaryLimit EXCEPT ![r] = limit]
                  /\ pc' = [pc EXCEPT ![r] = "update"]
                  /\ UNCHANGED <<result, commitOf>>
    /\ body' = [body EXCEPT ![r] = bodyAfter(ResponseOf(id))]

\* the pre-wait ends and t.Base.RoundTrip(request) returns a response
BaseResponse(r, id) ==
    /\ Forwarded(r)
    /\ Received(r, id)
    /\ called' = <<>>
    /\ UNCHANGED <<now, built, limiter, cancelled>>
    /\ UNCHANGED primaryVars

\* the request leaves updateRateLimit with needRetry = true: RoundTrip recurses
Retry(r) ==
    /\ pc' = [pc EXCEPT ![r] = "wait"]
    /\ resp' = [resp EXCEPT ![r] = "none"]
    /\ secondaryLimit' = [secondaryLimit EXCEPT ![r] = NoTime]
    /\ UNCHANGED result

\* updateRateLimit, the quick check without the lock
QuickCheck(r) ==
    /\ pc[r] = "update"
    /\ IF now > secondaryLimit[r]
       THEN Retry(r)
       ELSE /\ pc' = [pc EXCEPT ![r] = "lock"]
            /\ UNCHANGED <<resp, secondaryLimit, result>>
    /\ called' = <<>>
    /\ UNCHANGED <<now, built, limiter, cancelled, wakeAt, forwards, readReset,
                   commitOf>>
    /\ UNCHANGED <<body, primaryVars>>

\* a variant of Lock that does not look for an active rate limit
LockUnchecked(r) ==
    /\ pc[r] = "lock"
    /\ lock = NoReq
    /\ pc' = [pc EXCEPT ![r] = "locked"]
    /\ lock' = r
    /\ called' = <<>>
    /\ UNCHANGED <<now, built, resetTime, totalSleepTime, cancelled, wakeAt,
                   forwards, readReset, commitOf, resp, secondaryLimit, result>>
    /\ UNCHANGED <<body, primaryVars>>

\* updateRateLimit, t.lock.Lock() and the check for an active rate limit
Lock(r) ==
    /\ pc[r] = "lock"
    /\ lock = NoReq
    /\ IF currentSleepDurationUnlocked > 0
       THEN /\ Retry(r)
            /\ UNCHANGED lock
       ELSE /\ pc' = [pc EXCEPT ![r] = "locked"]
            /\ lock' = r
            /\ UNCHANGED <<resp, secondaryLimit, result>>
    /\ called' = <<>>
    /\ UNCHANGED <<now, built, resetTime, totalSleepTime, cancelled, wakeAt,
                   forwards, readReset, commitOf>>
    /\ UNCHANGED <<body, primaryVars>>

\* a variant that takes a reset instant of this very moment as one to wait for
DecisionAtInstant(c, sleepDuration, total) ==
    IF sleepDuration < 0 THEN "passed"
    ELSE IF IsAboveSingleSleepLimit(c, sleepDuration) THEN "single"
    ELSE IF IsAboveTotalSleepLimit(c, sleepDuration, total) THEN "total"
    ELSE "commit"

\* what updateRateLimit decides under the lock for a candidate sleep
Decision(c, sleepDuration, total) ==
    IF sleepDuration <= 0 THEN "passed"
    ELSE IF IsAboveSingleSleepLimit(c, sleepDuration) THEN "single"
    ELSE IF IsAboveTotalSleepLimit(c, sleepDuration, total) THEN "total"
    ELSE "commit"

\* updateRateLimit under the lock, from time.Until(secondaryLimit) to Unlock
UpdateRateLimit(r) ==
    /\ pc[r] = "locked"
    /\ lock = r
    /\ lock' = NoReq
    /\ LET sleepDuration == secondaryLimit[r] - now
           c == getRequestConfig(r)
           d == Decision(c, sleepDuration, totalSleepTime)
       IN CASE d = "passed" ->
                 /\ Retry(r)
                 /\ called' = <<>>
                 /\ UNCHANGED <<resetTime, totalSleepTime, commitOf>>
            [] d = "single" ->
                 /\ called' = triggerCallback(c.onSingleLimitExceeded, r, secondaryLimit[r],
                                            totalSleepTime)
                 /\ Return(r, "response", resp[r])
                 /\ UNCHANGED <<resetTime, totalSleepTime>>
            [] d = "total" ->
                 /\ called' = triggerCallback(c.onTotalLimitExceeded, r, secondaryLimit[r],
                                            totalSleepTime)
                 /\ Return(r, "response", resp[r])
                 /\ UNCHANGED <<resetTime, totalSleepTime>>
            [] d = "commit" ->
                 /\ resetTime' = secondaryLimit[r]
                 /\ totalSleepTime' = totalSleepTime + smoothSleepTime(sleepDuration)
                 /\ called' = triggerCallback(c.onLimitDetected, r, secondaryLimit[r],
                                            totalSleepTime')
                 /\ commitOf' = [commitOf EXCEPT ![r] = secondaryLimit[r]]
                 /\ Retry(r)
    /\ UNCHANGED <<now, built, cancelled, wakeAt, forwards, readReset>>
    /\ UNCHANGED <<body, primaryVars>>

\* the context of a request is cancelled, before or during its pre-wait (a
\* cancellation at any other point is first looked at by the next pre-wait)
Cancel(r) ==
    /\ r \in Cancellable
    /\ pc[r] \in {"wait", "sleep"}
    /\ ~cancelled[r]
    /\ cancelled' = [cancelled EXCEPT ![r] = TRUE]
    /\ called' = <<>>
    /\ UNCHANGED <<now, built, limiter, pc, wakeAt, resp, secondaryLimit, forwards,
                   result, readReset, commitOf>>
    /\ UNCHANGED <<body, primaryVars>>

\* the clock advances
Tick ==
    /\ now < MaxTime
    /\ now' = now + 1
    /\ called' = <<>>
    /\ UNCHANGED <<built, limiter, pc, cancelled, wakeAt, resp, secondaryLimit,
                   forwards, result, readReset, commitOf>>
    /\ UNCHANGED <<body, primaryVars>>

NextSecondary ==
    \/ Tick
    \/ \E r \in Reqs :
        \/ Call(r)
        \/ WaitForRateLimit(r)
        \/ BaseError(r)
        \/ \E id \in SecondaryTransportResponses : BaseResponse(r, id)
        \/ QuickCheck(r)
        \/ Lock(r)
        \/ UpdateRateLimit(r)
        \/ Cancel(r)

SpecSecondary == Init /\ [][NextSecondary]_vars

\* the limiters that commit cooldowns: no single sleep limit in the config of
\* the limiter, or one that the cooldowns looked at stay within
CooldownScenarios ==
    {sc \in Scenarios :
        \A i \in DOMAIN sc.options :
            sc.options[i].opt \in {"WithLimitDetectedCallback", "WithTotalSleepLimit"}
            \/ (sc.options[i].opt = "WithSingleSleepLimit"
                    /\ sc.options[i].limit >= 2 * TicksPerSec)}

\* a secondary limiter of CooldownScenarios; the primary limiter is not called
InitCooldown ==
    /\ now = 0
    /\ called = <<>>
    /\ input = NoInput
    /\ stage = "built"
    /\ parsedCategory = NoCategory
    /\ \E sc \in CooldownScenarios : InitSecondaryLimiter(sc)
    /\ InitPrimaryLimiter([options |-> AllCallbacks, overrides |-> NoPrimaryOverrides])

SpecCooldown == InitCooldown /\ [][NextSecondary]_vars

\* ---------------------------------------------------------------- injecter
\* RateLimitInjecter as SetupSecondaryInjecter(t, every, sleep) builds it, in an
\* injection period that started with the clock: Every is longer than the time
\* looked at, so that the no-injection period that follows lasts
InjecterOptions == [Every |-> MaxTime + 1, InjectionDuration |-> TicksPerSec]

\* RateLimitInjecter.blockUntil, the end of the injection period
blockUntil == InjecterOptions.InjectionDuration

\* getTimeToBlock: the time until blockUntil, a second more when it is not whole
getTimeToBlock(t) ==
    LET timeUntil == blockUntil - t
    IN IF timeUntil % TicksPerSec > 0 THEN timeUntil + TicksPerSec ELSE timeUntil

\* a variant whose injection period never ends
InjecterRoundTripEndless(t) == {id \in {"sec1", "sec2"} : ResponseOf(id).status = 403}

\* RateLimitInjecter.RoundTrip at the instant t: during the injection period the
\* secondary-limit response of toRetryResponse, whose retry-after is
\* int(getTimeToBlock().Seconds()); after it the response of the base transport,
\* up to the start of the next injection
InjecterRoundTrip(t) ==
    IF blockUntil > t
    THEN {id \in {"sec1", "sec2"} :
            ParseInt(ResponseOf(id).retryAfter).val = getTimeToBlock(t) \div TicksPerSec}
    ELSE IF t < blockUntil + InjecterOptions.Every THEN {"ok"} ELSE {"sec1"}

\* the secondary limiter on top of the injecter, whose base transport does not fail
NextInjected ==
    \/ Tick
    \/ \E r \in Reqs :
        \/ Call(r)
        \/ WaitForRateLimit(r)
        \/ \E id \in InjecterRoundTrip(now) : BaseResponse(r, id)
        \/ QuickCheck(r)
        \/ Lock(r)
        \/ UpdateRateLimit(r)
        \/ Cancel(r)

\* The clock advances; a RoundTrip that was called goes on: timers fire, the
\* transport answers, callbacks return, and sync.RWMutex lets no goroutine that
\* waits for the lock starve. Callers need not call and contexts need not be
\* cancelled.
SpecInjected ==
    /\ InitCooldown
    /\ [][NextInjected]_vars
    /\ WF_vars(Tick)
    /\ \A r \in Reqs :
          /\ SF_vars(WaitForRateLimit(r))
          /\ WF_vars(\E id \in InjecterRoundTrip(now) : BaseResponse(r, id))
          /\ WF_vars(QuickCheck(r))
          /\ SF_vars(Lock(r))
          /\ WF_vars(UpdateRateLimit(r))

\* ---------------------------------------------------------------- primary limiter
MaxRoundTrips == 3    \* calls of RoundTrip of the primary limiter

\* PrimaryRateLimiter.getRequestConfig
\* the config of the limiter the request goes through
ConfigOf(l) == IF l = "rateLimiterA" THEN primaryConfig ELSE primaryConfigB

getPrimaryRequestConfig(r) ==
    IF primaryOverrides[r] = <<>> THEN ConfigOf(via[r])
    ELSE ApplyPrimaryOptions(ConfigOf(via[r]), primaryOverrides[r])

\* the resetTimeMap of a state
SlotsOf(state) == IF state = "rateLimiterA" THEN slots ELSE slotsB

\* a variant of GetResetTime that never finds a reset instant
StateGetResetTimeNil(state, category) == NoTime

\* RateLimitState.GetResetTime: the slot of the category, nil without a slot
StateGetResetTime(state, category) ==
    IF category \notin DOMAIN SlotsOf(state) THEN NoTime
    ELSE SlotsOf(state)[category]

\* AtomicTime.Store on the slot of the category
Store(state, category, value) ==
    IF state = "rateLimiterA"
    THEN slots' = [slots EXCEPT ![category] = value] /\ UNCHANGED slotsB
    ELSE slotsB' = [slotsB EXCEPT ![category] = value] /\ UNCHANGED slots

\* Config.Trigger...: a nil callback is skipped
Trigger(callback, ctx) ==
    IF callback = "nil" THEN <<>> ELSE << [callback |-> callback] @@ ctx >>

\* CallbackContext; "nil" for a nil request or response, NoTime for a nil time
CallbackContext(request, response, category, reset) ==
    [Request |-> request, Response |-> response, Category |-> category,
     ResetTime |-> reset]

\* CallbackContext.AsError, returned with a nil response
AsError(ctx) ==
    [kind |-> "RateLimitReachedError", response |-> "nil", Request |-> ctx.Request,
     Response |-> ctx.Response, Category |-> ctx.Category,
     ResetTime |-> ctx.ResetTime]

primaryBuilt == <<primaryOptions, primaryConfig, primaryOverrides, primaryOptionsB,
                  primaryConfigB, via>>

\* a variant that wraps an error of the inner transport in an error of its own
PrimaryReturnWrapped(r, res) ==
    /\ primaryResult' = [primaryResult EXCEPT ![r] =
                            IF res.kind = "error"
                            THEN [kind |-> "error", wraps |-> res] ELSE res]
    /\ primaryPc' = [primaryPc EXCEPT ![r] = "done"]
    /\ firstAfterReset' = [firstAfterReset EXCEPT ![r] = FALSE]

\* RoundTrip returns
PrimaryReturn(r, res) ==
    /\ primaryResult' = [primaryResult EXCEPT ![r] = res]
    /\ primaryPc' = [primaryPc EXCEPT ![r] = "done"]
    /\ firstAfterReset' = [firstAfterReset EXCEPT ![r] = FALSE]

\* a caller invokes RoundTrip of the primary limiter with a request
PrimaryCall(r) ==
    /\ primaryPc[r] \in {"idle", "done"}
    /\ roundTrips < MaxRoundTrips
    /\ roundTrips' = roundTrips + 1
    /\ primaryPc' = [primaryPc EXCEPT ![r] = "gate"]
    /\ primaryResult' = [primaryResult EXCEPT ![r] = NoPrimaryResult]
    /\ prevented' = [prevented EXCEPT ![r] = FALSE]
    /\ called' = <<>>
    /\ UNCHANGED <<now, secondaryVars, primaryBuilt, slots, slotsB, timers,
                   afterReset, firstAfterReset>>

\* RoundTrip up to the forward: the slot of the request's category is loaded; a
\* set slot runs onRequestPrevented and, without bypassLimit, ends the call
Gate(r) ==
    /\ primaryPc[r] = "gate"
    /\ LET c == getPrimaryRequestConfig(r)
           category == parseRequestCategory(RequestOf(r))
           loaded == StateGetResetTime(c.state, category)
           first == c.state = "rateLimiterA" /\ afterReset[category]
           ctx == CallbackContext(r, NewErrorResponse(r, category), category,
                                  AsTime(loaded))
       IN /\ IF loaded # NoTime
             THEN /\ called' = Trigger(c.onReuqestPrevented, ctx)
                  /\ prevented' = [prevented EXCEPT ![r] = TRUE]
                  /\ IF ~c.bypassLimit
                     THEN PrimaryReturn(r, AsError(ctx))
                     ELSE /\ primaryPc' = [primaryPc EXCEPT ![r] = "forward"]
                          /\ firstAfterReset' =
                                [firstAfterReset EXCEPT ![r] = first]
                          /\ UNCHANGED primaryResult
             ELSE /\ called' = <<>>
                  /\ primaryPc' = [primaryPc EXCEPT ![r] = "forward"]
                  /\ firstAfterReset' =
                        [firstAfterReset EXCEPT ![r] = first]
                  /\ UNCHANGED <<prevented, primaryResult>>
          /\ afterReset' = IF first
                           THEN [afterReset EXCEPT ![category] = FALSE]
                           ELSE afterReset
    /\ UNCHANGED <<now, secondaryVars, primaryBuilt, slots, slotsB, timers,
                   roundTrips>>

\* l.Base.RoundTrip(request) fails: the error is returned
PrimaryBaseError(r) ==
    /\ primaryPc[r] = "forward"
    /\ PrimaryReturn(r, [kind |-> "error"])
    /\ called' = <<>>
    /\ UNCHANGED <<now, secondaryVars, primaryBuilt, slots, slotsB, timers,
                   roundTrips, prevented, afterReset>>

\* l.Base.RoundTrip(request) returns a response, and RateLimitState.Update looks
\* at it (reset instants lie within the horizon): nothing to do without a limit;
\* a limit of a category without a slot runs onUnknownCategory; a limit of a
\* category with a slot is stored, a goroutine waits for its timer, and
\* RoundTrip runs onLimitReached and returns the error
PrimaryBaseResponse(r, id) ==
    /\ primaryPc[r] = "forward"
    /\ LET c == getPrimaryRequestConfig(r)
           update == ResponseOf(id)
           category == GetCatgory(update)
           newResetTime == GetResetTime(update)
           ctx == CallbackContext(r, id, category, AsTime(newResetTime))
       IN /\ AsTime(newResetTime) <= MaxTime
          /\ IF newResetTime = NoTime
             THEN /\ PrimaryReturn(r, [kind |-> "response", response |-> id])
                  /\ called' = <<>>
                  /\ UNCHANGED <<slots, slotsB, timers>>
             ELSE IF category \notin DOMAIN SlotsOf(c.state)
             THEN /\ PrimaryReturn(r, [kind |-> "response", response |-> id])
                  /\ called' = Trigger(c.onUnknownCategory, ctx)
                  /\ UNCHANGED <<slots, slotsB, timers>>
             ELSE /\ Store(c.state, category, newResetTime)
                  /\ timers' = timers (+) SetToBag({[state |-> c.state,
                                                     Category |-> category,
                                                     ResetTime |-> newResetTime,
                                                     onLimitReset |-> c.onLimitReset]})
                  /\ called' = Trigger(c.onLimitReached, ctx)
                  /\ PrimaryReturn(r, AsError(ctx))
    /\ UNCHANGED <<now, secondaryVars, primaryBuilt, roundTrips, prevented,
                   afterReset>>

\* the goroutine of Update: its timer fires at the reset instant (at once when
\* that is not in the future), the slot is cleared and onLimitReset runs
TimerFire(t) ==
    /\ BagIn(t, timers)
    /\ now >= AsTime(t.ResetTime)
    /\ timers' = timers (-) SetToBag({t})
    /\ Store(t.state, t.Category, NoTime)
    /\ called' = Trigger(t.onLimitReset,
                         CallbackContext("nil", "nil", t.Category, AsTime(t.ResetTime)))
    /\ afterReset' = IF t.state = "rateLimiterA"
                     THEN [afterReset EXCEPT ![t.Category] = TRUE]
                     ELSE afterReset
    /\ UNCHANGED <<now, secondaryVars, primaryBuilt, primaryPc, primaryResult,
                   roundTrips, prevented, firstAfterReset>>

TimersFire == \E t \in BagToSet(timers) : TimerFire(t)

NextPrimary ==
    \/ Tick
    \/ TimersFire
    \/ \E r \in PrimaryReqs :
        \/ PrimaryCall(r)
        \/ Gate(r)
        \/ PrimaryBaseError(r)
        \/ \E id \in PrimaryTransportResponses(r) : PrimaryBaseResponse(r, id)

SpecPrimary == InitPrimary /\ [][NextPrimary]_vars

\* two primary limiters
SpecShared == InitShared /\ [][NextPrimary]_vars

\* the clock runs and every goroutine is scheduled
SpecPrimaryFair ==
    /\ InitPrimary
    /\ [][NextPrimary]_vars
    /\ WF_vars(Tick)
    /\ WF_vars(TimersFire)

\* ---------------------------------------------------------------- both limiters
\* An element of the list that New and WithOverrideConfig of the package of both
\* limiters take (of type any): an option of one limiter, or something else,
\* here a function of the plain type func(*Config) and not of the type Option.
PrimaryRateLimiterOption(o) == [type |-> "PrimaryRateLimiterOption", option |-> o]
SecondaryRateLimiterOption(o) == [type |-> "SecondaryRateLimiterOption", option |-> o]
NoOption == [type |-> "func(*Config)", option |-> Detected]

\* a variant of the type switch that takes what is no primary option for a
\* secondary one
TypeSwitchDefault(opt) ==
    IF opt.type = "PrimaryRateLimiterOption" THEN "primaryOpts" ELSE "secondaryOpts"

\* gatherOptions, the type switch on one element
TypeSwitch(opt) ==
    CASE opt.type = "PrimaryRateLimiterOption" -> "primaryOpts"
      [] opt.type = "SecondaryRateLimiterOption" -> "secondaryOpts"
      [] OTHER -> "panic"

\* gatherOptions: the options of each limiter in their order, or a panic
RECURSIVE gatherOptions(_)
gatherOptions(opts) ==
    IF opts = <<>>
    THEN [panic |-> FALSE, primaryOpts |-> <<>>, secondaryOpts |-> <<>>]
    ELSE LET opt == Head(opts)
             rest == gatherOptions(Tail(opts))
         IN IF TypeSwitch(opt) = "panic" \/ rest.panic
            THEN [panic |-> TRUE, primaryOpts |-> <<>>, secondaryOpts |-> <<>>]
            ELSE IF TypeSwitch(opt) = "primaryOpts"
            THEN [rest EXCEPT !.primaryOpts = <<opt.option>> \o @]
            ELSE [rest EXCEPT !.secondaryOpts = <<opt.option>> \o @]

\* the request of the secondary limiter, as the primary limiter below it sees it
AsPrimary(r) == IF r = "r1" THEN "p1" ELSE "p2"

\* the limiters of New(base, opts...) and the overrides of WithOverrideConfig
\* looked at: r1 carries no overrides, r2 carries overrides of both limiters
CompositeOptions ==
    << SecondaryRateLimiterOption(Detected),
       PrimaryRateLimiterOption(PrimaryOpt("WithLimitDetectedCallback", "cbReached")),
       PrimaryRateLimiterOption(PrimaryOpt("WithRequestPreventedCallback", "cbPrevented")),
       SecondaryRateLimiterOption(Opt("WithSingleSleepLimit", 2 * TicksPerSec, "cbSingle")),
       PrimaryRateLimiterOption(PrimaryOpt("WithLimitResetCallback", "cbReset")) >>

CompositeOverrides ==
    [r \in Reqs |->
        IF r = "r2"
        THEN << PrimaryRateLimiterOption(PrimaryOpt("WithBypassLimit", "nil")),
                SecondaryRateLimiterOption(Opt("WithSingleSleepLimit", 0, "cbOverride")),
                PrimaryRateLimiterOption(PrimaryOpt("WithLimitDetectedCallback",
                                                    "cbReachedOverride")) >>
        ELSE <<>>]

\* the responses the inner transport may give below both limiters
CompositeTransportResponses == {"ok", "secCore", "priCore1"}

\* New(base, opts...): the secondary limiter over the primary limiter over base;
\* WithOverrideConfig(ctx, opts...) puts the overrides of each limiter in the
\* context of the request
InitComposite ==
    /\ now = 0
    /\ called = <<>>
    /\ input = NoInput
    /\ stage = "built"
    /\ parsedCategory = NoCategory
    /\ LET opts == gatherOptions(CompositeOptions)
           over(r) == gatherOptions(CompositeOverrides[r])
       IN /\ InitSecondaryLimiter(
                [options |-> opts.secondaryOpts,
                 overrides |-> [r \in Reqs |-> over(r).secondaryOpts]])
          /\ InitPrimaryLimiter(
                [options |-> opts.primaryOpts,
                 overrides |-> [p \in PrimaryReqs |->
                                  IF \E r \in Reqs : AsPrimary(r) = p
                                  THEN over(CHOOSE r \in Reqs : AsPrimary(r) = p).primaryOpts
                                  ELSE <<>>]])

\* the pre-wait of the secondary limiter ends and t.Base.RoundTrip(request)
\* enters RoundTrip of the primary limiter
ForwardToPrimary(r) ==
    /\ Forwarded(r)
    /\ pc' = [pc EXCEPT ![r] = "base"]
    /\ primaryPc' = [primaryPc EXCEPT ![AsPrimary(r)] = "gate"]
    /\ primaryResult' = [primaryResult EXCEPT ![AsPrimary(r)] = NoPrimaryResult]
    /\ prevented' = [prevented EXCEPT ![AsPrimary(r)] = FALSE]
    /\ called' = <<>>
    /\ UNCHANGED <<now, built, limiter, cancelled, resp, secondaryLimit, result,
                   commitOf, body>>
    /\ UNCHANGED <<primaryBuilt, slots, slotsB, timers, roundTrips, afterReset,
                   firstAfterReset>>

\* err != nil, of what t.Base.RoundTrip returned
BaseFailed(res) == res.kind # "response"

\* RoundTrip of the primary limiter has returned to the secondary limiter: an
\* error is returned to the caller as it is, a response is classified
ReturnFromPrimary(r) ==
    /\ pc[r] = "base"
    /\ primaryPc[AsPrimary(r)] = "done"
    /\ primaryPc' = [primaryPc EXCEPT ![AsPrimary(r)] = "idle"]
    /\ LET res == primaryResult[AsPrimary(r)]
       IN IF BaseFailed(res)
          THEN /\ Return(r, "error", res)
               /\ body' = [body EXCEPT ![r] = NoBody]
          ELSE Received(r, res.response)
    /\ called' = <<>>
    /\ UNCHANGED <<now, built, limiter, cancelled, wakeAt, forwards, readReset>>
    /\ UNCHANGED <<primaryBuilt, slots, slotsB, timers, primaryResult, roundTrips,
                   prevented, afterReset, firstAfterReset>>

NextComposite ==
    \/ Tick
    \/ TimersFire
    \/ \E r \in Reqs :
        \/ Call(r)
        \/ WaitForRateLimit(r)
        \/ ForwardToPrimary(r)
        \/ Gate(AsPrimary(r))
        \/ PrimaryBaseError(AsPrimary(r))
        \/ \E id \in CompositeTransportResponses : PrimaryBaseResponse(AsPrimary(r), id)
        \/ ReturnFromPrimary(r)
        \/ QuickCheck(r)
        \/ Lock(r)
        \/ UpdateRateLimit(r)
        \/ Cancel(r)

SpecComposite == InitComposite /\ [][NextComposite]_vars

\* the responses the inner transport may give below both limiters when some of
\* them are plain 403 responses: no secondary limit by their body, no primary
\* limit by their x-ratelimit-remaining header
ForbiddenTransportResponses(r) ==
    IF r = "r1" THEN {"forbidden", "secCore"} ELSE {"forbidden", "rem00", "priCore1"}

NextForbidden ==
    \/ Tick
    \/ TimersFire
    \/ \E r \in Reqs :
        \/ Call(r)
        \/ WaitForRateLimit(r)
        \/ ForwardToPrimary(r)
        \/ Gate(AsPrimary(r))
        \/ PrimaryBaseError(AsPrimary(r))
        \/ \E id \in ForbiddenTransportResponses(r) :
              PrimaryBaseResponse(AsPrimary(r), id)
        \/ ReturnFromPrimary(r)
        \/ QuickCheck(r)
        \/ Lock(r)
        \/ UpdateRateLimit(r)
        \/ Cancel(r)

SpecForbidden == InitComposite /\ [][NextForbidden]_vars

\* ---------------------------------------------------------------- construction
MaxOptions == 2    \* the length of a list of options

\* what a list may hold
OptionElements ==
    { PrimaryRateLimiterOption(PrimaryOpt("WithLimitDetectedCallback", "cbReached")),
      PrimaryRateLimiterOption(PrimaryOpt("WithBypassLimit", "nil")),
      SecondaryRateLimiterOption(Detected),
      SecondaryRateLimiterOption(Opt("WithSingleSleepLimit", 0, "cbSingle")),
      NoOption }

RECURSIVE ListsOf(_)
ListsOf(n) ==
    IF n = 0 THEN {<<>>}
    ELSE ListsOf(n - 1) \cup
         {Append(l, e) : l \in {k \in ListsOf(n - 1) : Len(k) = n - 1},
                         e \in OptionElements}

OptionLists == ListsOf(MaxOptions)

\* the request whose context WithOverrideConfig is called with
Overridden == "r2"

\* no limiter yet; the lists for New and for WithOverrideConfig are drawn
InitConstruct ==
    /\ now = 0
    /\ called = <<>>
    /\ input \in [opts : OptionLists, overrides : OptionLists]
    /\ stage = "unbuilt"
    /\ parsedCategory = NoCategory
    /\ InitSecondaryLimiter([options |-> <<>>, overrides |-> NoOverrides])
    /\ InitPrimaryLimiter([options |-> <<>>, overrides |-> NoPrimaryOverrides])

\* New(base, input.opts...): gatherOptions panics, or the primary limiter is
\* built with the primary options and the secondary limiter with the others
New ==
    /\ stage = "unbuilt"
    /\ LET g == gatherOptions(input.opts)
       IN IF g.panic
          THEN /\ stage' = "New panicked"
               /\ UNCHANGED <<options, config, primaryOptions, primaryConfig>>
          ELSE /\ stage' = "built"
               /\ primaryOptions' = g.primaryOpts
               /\ primaryConfig' = newPrimaryConfig(g.primaryOpts, "rateLimiterA")
               /\ options' = g.secondaryOpts
               /\ config' = newConfig(g.secondaryOpts)
    /\ called' = <<>>
    /\ UNCHANGED <<now, input, parsedCategory, overrides, limiter, pc, cancelled, wakeAt, resp,
                   secondaryLimit, forwards, result, readReset, commitOf, body>>
    /\ UNCHANGED <<primaryOverrides, slots, primaryOptionsB, primaryConfigB, slotsB,
                   via, timers, primaryPc, primaryResult, roundTrips, prevented,
                   afterReset, firstAfterReset>>

\* WithOverrideConfig(ctx, input.overrides...) on the context of a request
\* without overrides: gatherOptions panics, or the options of each limiter, if
\* any, are put in the context under the key of that limiter
WithOverrideConfig(r) ==
    /\ stage = "built"
    /\ pc[r] = "idle"
    /\ overrides[r] = <<>> /\ primaryOverrides[AsPrimary(r)] = <<>>
    /\ LET g == gatherOptions(input.overrides)
       IN IF g.panic
          THEN /\ stage' = "WithOverrideConfig panicked"
               /\ UNCHANGED <<overrides, primaryOverrides>>
          ELSE /\ g.primaryOpts # <<>> \/ g.secondaryOpts # <<>>
               /\ primaryOverrides' =
                     IF Len(g.primaryOpts) > 0
                     THEN [primaryOverrides EXCEPT ![AsPrimary(r)] = g.primaryOpts]
                     ELSE primaryOverrides
               /\ overrides' =
                     IF Len(g.secondaryOpts) > 0
                     THEN [overrides EXCEPT ![r] = g.secondaryOpts]
                     ELSE overrides
               /\ UNCHANGED stage
    /\ called' = <<>>
    /\ UNCHANGED <<now, input, parsedCategory, options, config, limiter, pc, cancelled, wakeAt, resp,
                   secondaryLimit, forwards, result, readReset, commitOf, body>>
    /\ UNCHANGED <<primaryOptions, primaryConfig, slots, primaryOptionsB,
                   primaryConfigB, slotsB, via, timers, primaryPc, primaryResult,
                   roundTrips, prevented, afterReset, firstAfterReset>>

NextConstruct ==
    \/ New
    \/ WithOverrideConfig(Overridden)

SpecConstruct == InitConstruct /\ [][NextConstruct]_vars

\* ---------------------------------------------------------------- classification
\* the responses drawn for classification: a status, a retry-after header, an
\* x-ratelimit-remaining header, and a body that holds the text of a value or
\* no JSON, or fails when read
ClassifierStatuses == {200, 403, 404, 429}
RemainingTexts == {<<>>, <<"0">>, <<"0","0">>, <<"-","0">>, <<"5">>, <<"x">>}
RetryAfterTexts == {<<>>, <<"1">>}

ClassifierBodies ==
    {Body(FALSE, v) : v \in JSONValues \cup {NotJSON}}
    \cup {[readErr |-> TRUE, text |-> SecondaryBody.text]}

ClassifierResponses ==
    { Response(status, retryAfter, <<>>, remaining, "", b) :
        status \in ClassifierStatuses, retryAfter \in RetryAfterTexts,
        remaining \in RemainingTexts, b \in ClassifierBodies }

\* the limiters the responses are given to: one that sleeps, one that may not
ClassifierScenarios ==
    { [options |-> <<Detected>>, overrides |-> NoOverrides],
      [options |-> <<Detected, Opt("WithSingleSleepLimit", 0, "cbSingle")>>,
       overrides |-> NoOverrides] }

\* the request that is sent
Served == "r1"

\* a secondary limiter over an inner transport that serves the response drawn
InitClassifier ==
    /\ now = 0
    /\ called = <<>>
    /\ input \in ClassifierResponses
    /\ stage = "built"
    /\ parsedCategory = NoCategory
    /\ \E sc \in ClassifierScenarios : InitSecondaryLimiter(sc)
    /\ InitPrimaryLimiter([options |-> AllCallbacks, overrides |-> NoPrimaryOverrides])

NextClassifier ==
    \/ Tick
    \/ Call(Served)
    \/ WaitForRateLimit(Served)
    \/ BaseResponse(Served, "input")
    \/ QuickCheck(Served)
    \/ Lock(Served)
    \/ UpdateRateLimit(Served)

SpecClassifier == InitClassifier /\ [][NextClassifier]_vars

\* ---------------------------------------------------------------- category resolver
\* the methods and paths drawn for parseCategory: a start, a middle and an end
\* each, among them those of the rules, in other letter case too
CategoryInputs ==
    LET starts == { <<>>, <<"/","s","e","a","r","c","h","/","c","o","d","e">>,
                    <<"/","s","e","a","r","c","h">>, <<"/","S","e","a","r","c","h">>,
                    <<"/","g","r","a","p","h","q","l">>, <<"/","r","e","p","o","s","/">>,
                    <<"/","a","p","p","/","m","a","n","f","i","e","s","t","s","/">>,
                    <<"/","o","r","g","s","/">>, <<"/","s","c","i","m">>,
                    <<"/","v","3","/","s","e","a","r","c","h">> }
        middles == { <<>>, <<"x">> }
        ends == { <<>>, <<"/","i","m","p","o","r","t">>,
                  <<"/","a","u","d","i","t","_","l","o","g">>,
                  <<"/","c","o","n","v","e","r","s","i","o","n","s">>,
                  <<"/","d","e","p","e","n","d","e","n","c","y","-","g","r","a","p","h","/","s","n","a","p","s","h","o","t","s">>,
                  <<"/","c","o","d","e","-","s","c","a","n","n","i","n","g","/","s","a","r","i","f","s">>,
                  <<"/","a","c","t","i","o","n","s","/","r","u","n","n","e","r","s">>,
                  <<"/","a","u","d","i","t","_","l","o","g","/">> }
    IN { [Method |-> method, Path |-> start \o middle \o end] :
           method \in {"GET", "POST", "post", "PUT"},
           start \in starts, middle \in middles, end \in ends }

\* a method and a path are drawn; the state map is that of a primary limiter
InitCategory ==
    /\ now = 0
    /\ called = <<>>
    /\ input \in CategoryInputs
    /\ stage = "unresolved"
    /\ parsedCategory = NoCategory
    /\ InitSecondaryLimiter([options |-> <<Detected>>, overrides |-> NoOverrides])
    /\ InitPrimaryLimiter([options |-> AllCallbacks, overrides |-> NoPrimaryOverrides])

\* parseCategory(input.Method, input.Path) is called
ParseCategory ==
    /\ stage = "unresolved"
    /\ parsedCategory' = parseCategory(input.Method, input.Path)
    /\ stage' = "resolved"
    /\ called' = <<>>
    /\ UNCHANGED <<now, input, options, config, overrides, limiter, pc, cancelled,
                   wakeAt, resp, secondaryLimit, forwards, result, readReset,
                   commitOf, body>>
    /\ UNCHANGED primaryVars

SpecCategory == InitCategory /\ [][ParseCategory]_vars

\* ---------------------------------------------------------------- reset instant
\* the responses drawn for the parse of the reset instant: secondary limits by
\* their body (plus one that is none), with a retry-after header and an
\* x-ratelimit-reset header that are missing, a positive integer, zero,
\* negative or no integer
ResetParseResponses ==
    LET retryAfterTexts == {<<>>, <<"1">>, <<"+","2">>, <<"0">>, <<"-","1">>,
                            <<"1",".","5">>, <<"1","s">>}
        resetTexts == {<<>>, <<"1">>, <<"2">>, <<"0">>, <<"-","2">>, <<"x">>}
    IN { Response(status, retryAfter, reset, <<>>, "", b) :
           status \in LimitStatusCodes, retryAfter \in retryAfterTexts,
           reset \in resetTexts, b \in {SecondaryBody, AbuseDocBody} }
       \cup { Response(403, <<"1">>, <<"2">>, <<>>, "", OtherBody) }

\* a secondary limiter over an inner transport that serves the response drawn
InitResetParse ==
    /\ now = 0
    /\ called = <<>>
    /\ input \in ResetParseResponses
    /\ stage = "built"
    /\ parsedCategory = NoCategory
    /\ \E sc \in ClassifierScenarios : InitSecondaryLimiter(sc)
    /\ InitPrimaryLimiter([options |-> AllCallbacks, overrides |-> NoPrimaryOverrides])

SpecResetParse == InitResetParse /\ [][NextClassifier]_vars

\* ---------------------------------------------------------------- sleep smoothing
MaxSleep == 60    \* the longest sleep duration drawn, in ticks

\* a limiter that has slept for nothing yet, and the sleep duration of the limit
\* it is about to commit
InitSmooth ==
    /\ now = 0
    /\ called = <<>>
    /\ input \in 0..MaxSleep
    /\ stage = "detected"
    /\ parsedCategory = NoCategory
    /\ InitSecondaryLimiter([options |-> <<Detected>>, overrides |-> NoOverrides])
    /\ InitPrimaryLimiter([options |-> AllCallbacks, overrides |-> NoPrimaryOverrides])

\* t.totalSleepTime += smoothSleepTime(sleepDuration)
AddSmoothedSleep ==
    /\ stage = "detected"
    /\ totalSleepTime' = totalSleepTime + smoothSleepTime(input)
    /\ stage' = "committed"
    /\ called' = <<>>
    /\ UNCHANGED <<now, input, parsedCategory, options, config, overrides, resetTime,
                   lock, pc, cancelled, wakeAt, resp, secondaryLimit, forwards,
                   result, readReset, commitOf, body>>
    /\ UNCHANGED primaryVars

SpecSmooth == InitSmooth /\ [][AddSmoothedSleep]_vars

\* ================================================================ claims, secondary
\* the request takes a step that sends it to the inner transport
Forwards(r) == forwards'[r] = forwards[r] + 1

\* the request leaves updateRateLimit (the step that ends with Unlock)
LeavesUpdate(r) == pc[r] = "locked" /\ pc'[r] # "locked"

\* the candidate sleep of the request that holds the lock
CandidateSleep(r) == secondaryLimit[r] - now

\* the context a callback of the request gets for its candidate reset instant
ContextOf(callback, r, total) ==
    [callback |-> callback, Request |-> r, Response |-> resp[r],
     ResetTime |-> secondaryLimit[r], TotalSleepTime |-> total]

\* the step runs exactly the given callback, once (a nil callback: nothing runs)
Runs(callback, r, total) ==
    called' = IF callback = "nil" THEN <<>> ELSE <<ContextOf(callback, r, total)>>

\* the step returns the triggering response to the caller, with no commit
ReturnsTriggeringResponse(r) ==
    /\ resetTime' = resetTime
    /\ totalSleepTime' = totalSleepTime
    /\ pc'[r] = "done"
    /\ result'[r] = [kind |-> "response", resp |-> resp[r]]

\* C1: a request whose pre-wait read a committed cooldown with reset instant R
\* is not forwarded to the inner transport before R, unless its context is
\* cancelled first.
C1_WaitsForCommittedCooldown ==
    [][\A r \in Reqs :
          (Forwards(r) /\ readReset[r] # NoTime)
              => (now >= readReset[r] \/ cancelled[r])]_vars

\* a request is held in its pre-wait by the cooldown another request committed
C1_Witness ==
    \E r \in Reqs : \E q \in Reqs \ {r} :
        /\ pc[r] = "sleep" /\ ~cancelled[r]
        /\ commitOf[q] # NoTime /\ readReset[r] = commitOf[q]
        /\ now < readReset[r] /\ wakeAt[r] = readReset[r]

\* the case of C2: the lock is held for a limit whose reset instant is in the
\* future, no cooldown is active and no sleep cap is exceeded
C2_Case(r) ==
    LET c == getRequestConfig(r)
        d == CandidateSleep(r)
    IN /\ pc[r] = "locked"
       /\ d > 0
       /\ resetTime = NoTime \/ resetTime <= now
       /\ c.singleSleepLimit = NoLimit \/ d <= c.singleSleepLimit
       /\ c.totalSleepLimit = NoLimit
            \/ totalSleepTime + smoothSleepTime(d) <= c.totalSleepLimit

\* in the case of C2 the cooldown is committed, onLimitDetected runs once, and the
\* limit response is not returned: the request is sent again
C2_Commits(r) ==
    (C2_Case(r) /\ LeavesUpdate(r)) =>
        /\ resetTime' = secondaryLimit[r]
        /\ Runs(getRequestConfig(r).onLimitDetected, r, totalSleepTime')
        /\ pc'[r] = "wait"
        /\ result'[r] = NoResult

\* C2 (as amended): in that case the limiter commits the cooldown, runs
\* onLimitDetected exactly once for the commit, does not return the limit
\* response, and sends the request again only at or after the reset instant,
\* unless the request's context is cancelled meanwhile.
C2_CommitThenResendAfterReset ==
    [][\A r \in Reqs :
          /\ C2_Commits(r)
          /\ (Forwards(r) /\ commitOf[r] # NoTime)
                => (now >= commitOf[r] \/ cancelled[r])]_vars

\* C2 as stated: the request is sent again only after the reset instant.
C2_Original ==
    [][\A r \in Reqs :
          /\ C2_Commits(r)
          /\ (Forwards(r) /\ commitOf[r] # NoTime) => now >= commitOf[r]]_vars

\* a request committed a cooldown, waited for it uncancelled, was sent again and
\* returned the response of that second forward
C2_Witness ==
    \E r \in Reqs :
        /\ pc[r] = "done" /\ ~cancelled[r]
        /\ forwards[r] = 2 /\ result[r] = [kind |-> "response", resp |-> "ok"]
        /\ resetTime # NoTime /\ now >= resetTime
        /\ totalSleepTime > 0
        /\ \A q \in Reqs \ {r} : pc[q] = "idle"

\* C3: when the candidate sleep is strictly greater than the effective
\* singleSleepLimit, onSingleLimitExceeded runs, resetTime and totalSleepTime
\* stay as they are, and the triggering response is returned without a retry.
C3_SingleLimitExceeded ==
    [][\A r \in Reqs :
          LET c == getRequestConfig(r)
          IN (/\ LeavesUpdate(r)
              /\ c.singleSleepLimit # NoLimit
              /\ CandidateSleep(r) > c.singleSleepLimit)
                 => /\ Runs(c.onSingleLimitExceeded, r, totalSleepTime)
                    /\ ReturnsTriggeringResponse(r)]_vars

\* a request got its limit response back after onSingleLimitExceeded ran, and
\* nothing was committed
C3_Witness ==
    \E r \in Reqs :
        /\ pc[r] = "done" /\ result[r] = [kind |-> "response", resp |-> "sec1"]
        /\ Len(called) = 1 /\ called[1].callback \in {"cbSingle", "cbOverride"}
        /\ called[1].Request = r
        /\ resetTime = NoTime /\ totalSleepTime = 0

\* C4: a limit that reaches the caps with a sleep in the future and within the
\* single cap is rejected by the total cap (onTotalLimitExceeded runs, nothing is
\* committed, the triggering response is returned) exactly when
\* totalSleepTime + smoothed(candidate sleep) > totalSleepLimit.
C4_TotalCapUsesSmoothedSleep ==
    [][\A r \in Reqs :
          LET c == getRequestConfig(r)
              d == CandidateSleep(r)
          IN (/\ LeavesUpdate(r)
              /\ d > 0
              /\ c.singleSleepLimit = NoLimit \/ d <= c.singleSleepLimit
              /\ c.totalSleepLimit # NoLimit)
                 => ((/\ Runs(c.onTotalLimitExceeded, r, totalSleepTime)
                      /\ ReturnsTriggeringResponse(r))
                     <=> totalSleepTime + smoothSleepTime(d) > c.totalSleepLimit)]_vars

\* C5: with a totalSleepLimit L and no per-request overrides, totalSleepTime is
\* at most L in every reachable state.
C5_TotalSleepTimeWithinLimit ==
    (config.totalSleepLimit # NoLimit /\ overrides = NoOverrides)
        => totalSleepTime <= config.totalSleepLimit

\* the limiter was built with WithNoSleep(callback)
BuiltWithNoSleep == \E i \in DOMAIN options : options[i].opt = "WithNoSleep"

NoSleepCallback ==
    options[CHOOSE i \in DOMAIN options : options[i].opt = "WithNoSleep"].callback

\* C6: a limiter built with WithNoSleep(cb) commits no cooldown and never
\* retries: on every secondary limit with a reset instant in the future it runs
\* cb and returns the triggering response, as with WithSingleSleepLimit(0, cb).
C6_NoSleepNeverSleeps ==
    [][\A r \in Reqs :
          (BuiltWithNoSleep /\ overrides[r] = <<>> /\ LeavesUpdate(r)
             /\ CandidateSleep(r) > 0)
              => /\ Runs(NoSleepCallback, r, totalSleepTime)
                 /\ ReturnsTriggeringResponse(r)]_vars

\* ================================================================ claims, primary
\* the category the request resolves to
CategoryOf(r) == parseRequestCategory(RequestOf(r))

\* the RoundTrip reads the slot of its category (and goes on or returns)
ReadsSlot(r) == primaryPc[r] = "gate" /\ primaryPc'[r] # "gate"

\* the RoundTrip gets a response from the inner transport and returns
GetsResponse(r) ==
    /\ primaryPc[r] = "forward" /\ primaryPc'[r] = "done"
    /\ primaryResult'[r].kind # "error"

\* that response, by name: the one returned, or the one the error carries
InnerResponse(r) ==
    IF primaryResult'[r].kind = "response" THEN primaryResult'[r].response
    ELSE primaryResult'[r].Response

\* the response has a limit status and the text 0 as x-ratelimit-remaining
IsLimitReached(id) ==
    /\ ResponseOf(id).status \in {403, 429}
    /\ ResponseOf(id).remaining = <<"0">>

\* the reset instant the response advertises, in ticks
ResetInstantOf(id) == Atoi(ResponseOf(id).reset) * TicksPerSec

\* the step runs exactly one callback, with this context
RunsPrimary(callback, request, response, category, reset) ==
    called' = << [callback |-> callback, Request |-> request, Response |-> response,
                  Category |-> category, ResetTime |-> reset] >>

\* C7: without bypassLimit, a RoundTrip that reads the slot of the category C
\* its request resolves to while the slot holds T returns a
\* RateLimitReachedError with C and T and no response, runs
\* onRequestPrevented, and is not forwarded to the inner transport.
C7_SetSlotPreventsRequest ==
    [][\A r \in PrimaryReqs :
          LET c == getPrimaryRequestConfig(r)
              C == CategoryOf(r)
              T == slots[C]
          IN (ReadsSlot(r) /\ T # NoTime /\ ~c.bypassLimit)
                => /\ primaryPc'[r] = "done"
                   /\ primaryResult'[r].kind = "RateLimitReachedError"
                   /\ primaryResult'[r].response = "nil"
                   /\ primaryResult'[r].Request = r
                   /\ primaryResult'[r].Category = C
                   /\ primaryResult'[r].ResetTime = T * TicksPerSec
                   /\ Len(called') = 1
                   /\ called'[1].callback = c.onReuqestPrevented
                   /\ called'[1].Request = r
                   /\ called'[1].Category = C
                   /\ called'[1].ResetTime = T * TicksPerSec]_vars

\* a request was prevented: its category's slot is set, onRequestPrevented ran
\* and the error is what the caller got
C7_Witness ==
    \E r \in PrimaryReqs :
        /\ primaryPc[r] = "done" /\ prevented[r]
        /\ primaryResult[r].kind = "RateLimitReachedError"
        /\ slots[CategoryOf(r)] # NoTime
        /\ primaryResult[r].ResetTime = slots[CategoryOf(r)] * TicksPerSec
        /\ Len(called) = 1 /\ called[1].callback = "cbPrevented"
        /\ ~getPrimaryRequestConfig(r).bypassLimit

\* what C8 says of a response but for onRequestPrevented: limit-reached iff
\* limit status and remaining 0; then, for a known category, the reset is stored
\* in the category's slot, onLimitReached runs once and the caller gets the error
\* and no response; otherwise the response is returned and no slot changes
C8_Response(r) ==
    LET id == InnerResponse(r)
        category == ResponseOf(id).resource
        res == primaryResult'[r]
    IN IF IsLimitReached(id) /\ category \in AllCategories
       THEN /\ slots' = [slots EXCEPT ![category] = Atoi(ResponseOf(id).reset)]
            /\ RunsPrimary(getPrimaryRequestConfig(r).onLimitReached, r, id,
                           category, ResetInstantOf(id))
            /\ res.kind = "RateLimitReachedError" /\ res.response = "nil"
            /\ res.Response = id /\ res.Category = category
            /\ res.ResetTime = ResetInstantOf(id)
       ELSE /\ res = [kind |-> "response", response |-> id]
            /\ slots' = slots
            /\ timers' = timers

C9_Cleared == \A c \in AllCategories : []<>(slots[c] = NoTime)

\* a set slot is cleared by a goroutine whose timer fired, which runs onLimitReset
\* with the category, its reset instant, and nil request and response
C9_ClearedByTimer ==
    \A c \in AllCategories :
        (slots[c] # NoTime /\ slots'[c] = NoTime)
            => \E t \in BagToSet(timers) :
                  /\ t.Category = c
                  /\ now >= t.ResetTime * TicksPerSec
                  /\ timers' = timers (-) SetToBag({t})
                  /\ RunsPrimary(t.onLimitReset, "nil", "nil", c,
                                 t.ResetTime * TicksPerSec)

\* the RoundTrip ends a forward that found nothing to prevent it
EndsForward(r) == primaryPc[r] = "forward" /\ primaryPc'[r] = "done"

C10_UnknownCategory ==
    [][\A r \in PrimaryReqs :
          (/\ GetsResponse(r)
           /\ IsLimitReached(InnerResponse(r))
           /\ ResponseOf(InnerResponse(r)).resource \notin AllCategories)
             => /\ RunsPrimary(getPrimaryRequestConfig(r).onUnknownCategory, r,
                               InnerResponse(r),
                               ResponseOf(InnerResponse(r)).resource,
                               ResetInstantOf(InnerResponse(r)))
                /\ slots' = slots
                /\ timers' = timers
                /\ primaryResult'[r] =
                      [kind |-> "response", response |-> InnerResponse(r)]]_vars

\* a caller got back a limit-reached response of an unknown category, after
\* onUnknownCategory ran with it
C10_Witness ==
    \E r \in PrimaryReqs :
        /\ primaryPc[r] = "done"
        /\ primaryResult[r] = [kind |-> "response", response |-> "priUnknown"]
        /\ Len(called) = 1 /\ called[1].callback = "cbUnknown"
        /\ called[1].Category = "copilot" /\ called[1].Response = "priUnknown"
        /\ \A c \in AllCategories : slots[c] = NoTime
        /\ timers = EmptyBag

\* rateLimiterB was built with WithSharedState(rateLimiterA.GetState())
BuiltShared ==
    \E i \in DOMAIN primaryOptionsB :
        /\ primaryOptionsB[i].opt = "WithSharedState"
        /\ primaryOptionsB[i].state = GetState(primaryConfig)

\* C11: with rateLimiterB built over the state of rateLimiterA, a limit that
\* either limiter records for a category is stored in the one shared state, a
\* request resolving to the category is short-circuited through either limiter
\* while the slot is set, and forwarded through either once it is cleared.
C11_SharedState ==
    [][BuiltShared =>
         \A r \in PrimaryReqs :
            LET C == CategoryOf(r)
                c == getPrimaryRequestConfig(r)
            IN /\ (ReadsSlot(r) /\ slots[C] # NoTime /\ ~c.bypassLimit)
                     => /\ primaryPc'[r] = "done"
                        /\ primaryResult'[r].kind = "RateLimitReachedError"
                        /\ primaryResult'[r].Category = C
                        /\ primaryResult'[r].ResetTime = slots[C] * TicksPerSec
                        /\ Len(called') = 1
                        /\ called'[1].callback = c.onReuqestPrevented
               /\ (ReadsSlot(r) /\ slots[C] = NoTime)
                     => primaryPc'[r] = "forward" /\ called' = <<>>
               /\ (GetsResponse(r) /\ primaryResult'[r].kind = "RateLimitReachedError")
                     => /\ slots'[primaryResult'[r].Category] * TicksPerSec
                             = primaryResult'[r].ResetTime
                        /\ slotsB' = slotsB]_vars

\* a request through rateLimiterB was short-circuited by a limit that
\* rateLimiterA recorded: the goroutine that waits to clear it is that of A
C11_Witness ==
    \E r \in ViaB :
        /\ BuiltShared
        /\ primaryPc[r] = "done" /\ prevented[r]
        /\ primaryResult[r].kind = "RateLimitReachedError"
        /\ Len(called) = 1 /\ called[1].callback = "cbPreventedB"
        /\ \E t \in BagToSet(timers) :
              /\ t.onLimitReset = "cbReset"
              /\ t.Category = CategoryOf(r)
              /\ t.ResetTime * TicksPerSec = primaryResult[r].ResetTime
        /\ \A t \in BagToSet(timers) : t.onLimitReset = "cbReset"

\* the limiter of the request was built with WithBypassLimit(), or the request
\* carries it as an override
HasBypassLimit(r) ==
    \/ \E i \in DOMAIN primaryOptions : primaryOptions[i].opt = "WithBypassLimit"
    \/ \E i \in DOMAIN primaryOverrides[r] :
          primaryOverrides[r][i].opt = "WithBypassLimit"

\* C12: with bypassLimit, a RoundTrip that finds the slot of its category set
\* still runs onRequestPrevented, but goes on to the inner transport, and the
\* response it gets is classified and handled as any forwarded response is.
C12_BypassLimit ==
    [][\A r \in PrimaryReqs :
          LET C == CategoryOf(r)
          IN /\ (ReadsSlot(r) /\ HasBypassLimit(r) /\ slots[C] # NoTime)
                   => /\ RunsPrimary(getPrimaryRequestConfig(r).onReuqestPrevented,
                                     r, NewErrorResponse(r, C), C,
                                     slots[C] * TicksPerSec)
                      /\ primaryPc'[r] = "forward"
                      /\ primaryResult'[r] = NoPrimaryResult
                      /\ slots' = slots /\ timers' = timers
             /\ (GetsResponse(r) /\ HasBypassLimit(r) /\ prevented[r])
                   => C8_Response(r)]_vars

\* a request went past the set slot of its category, after onRequestPrevented
\* ran, and returned the response of the inner transport
C12_Witness ==
    \E r \in PrimaryReqs :
        /\ HasBypassLimit(r) /\ prevented[r]
        /\ primaryPc[r] = "done"
        /\ primaryResult[r] = [kind |-> "response", response |-> "ok"]
        /\ slots[CategoryOf(r)] # NoTime

\* ================================================================ claims, both limiters
\* the config each limiter has to use for the request: the options the limiter
\* was built with, followed by the overrides of the request
EffectiveConfig(r) == newConfig(options \o overrides[r])
EffectivePrimaryConfig(p) ==
    newPrimaryConfig(primaryOptions \o primaryOverrides[p], "rateLimiterA")

\* C13: the decisions and callbacks of a request follow the config of the
\* limiter overlaid by the overrides its context carries, in both limiters (a
\* request without overrides follows the config of the limiter), and no step
\* changes the config of a limiter, which stays as it was built.
C13_Overrides ==
    [][ /\ config' = config /\ config = newConfig(options)
        /\ primaryConfig' = primaryConfig
        /\ primaryConfig = newPrimaryConfig(primaryOptions, "rateLimiterA")
        /\ \A r \in Reqs :
             LET c == EffectiveConfig(r)
                 d == Decision(c, CandidateSleep(r), totalSleepTime)
                 p == AsPrimary(r)
                 pcfg == EffectivePrimaryConfig(p)
                 C == CategoryOf(p)
             IN /\ (LeavesUpdate(r) /\ d = "single")
                      => /\ Runs(c.onSingleLimitExceeded, r, totalSleepTime)
                         /\ ReturnsTriggeringResponse(r)
                /\ (LeavesUpdate(r) /\ d = "commit")
                      => /\ resetTime' = secondaryLimit[r]
                         /\ Runs(c.onLimitDetected, r, totalSleepTime')
                         /\ pc'[r] = "wait"
                /\ (ReadsSlot(p) /\ slots[C] # NoTime)
                      => /\ called' = Trigger(pcfg.onReuqestPrevented,
                                             CallbackContext(p, NewErrorResponse(p, C), C,
                                                             slots[C] * TicksPerSec))
                         /\ primaryPc'[p] = (IF pcfg.bypassLimit THEN "forward" ELSE "done")
                /\ (GetsResponse(p) /\ IsLimitReached(InnerResponse(p)))
                      => called' = Trigger(pcfg.onLimitReached,
                                          CallbackContext(p, InnerResponse(p),
                                                          ResponseOf(InnerResponse(p)).resource,
                                                          ResetInstantOf(InnerResponse(p))))
      ]_vars

\* r2, whose context overrides both limiters, went past a set slot of the
\* primary limiter and is given the secondary limit back under its own single
\* sleep limit, while the limiter's config has neither
C13_Witness ==
    /\ overrides["r2"] # <<>> /\ primaryOverrides["p2"] # <<>>
    /\ ~primaryConfig.bypassLimit /\ config.singleSleepLimit # 0
    /\ prevented["p2"]
    /\ Len(called) = 1 /\ called[1].callback = "cbOverride" /\ called[1].Request = "r2"
    /\ result["r2"] = [kind |-> "response", resp |-> "secCore"]
    /\ result["r1"].kind = "error" /\ result["r1"].resp.kind = "RateLimitReachedError"


\* the response is a secondary limit with a reset instant
IsSecondaryLimit(id) == parseSecondaryLimitTime(ResponseOf(id), now) # NoTime

\* the secondary limiter is given the outcome of the primary limiter
GetsOutcome(r) == pc[r] = "base" /\ pc'[r] # "base"

\* C14: with the secondary limiter stacked over the primary one, a
\* secondary-limit response changes no slot of the primary limiter, neither
\* when the primary limiter passes it on nor when the secondary limiter handles
\* it; a primary-limit response and a request the primary limiter prevents
\* change neither resetTime nor totalSleepTime; and the RateLimitReachedError
\* of the primary limiter is what the secondary limiter returns, as it is,
\* without a callback and without forwarding the request again.
C14_LayersApart ==
    [][ \A r \in Reqs :
          LET p == AsPrimary(r)
          IN /\ (GetsResponse(p) /\ IsSecondaryLimit(InnerResponse(p)))
                   => /\ slots' = slots /\ timers' = timers
                      /\ primaryResult'[p] =
                            [kind |-> "response", response |-> InnerResponse(p)]
             /\ (pc[r] \in {"base", "update", "lock", "locked"} /\ pc'[r] # pc[r])
                   => slots' = slots /\ timers' = timers
             /\ (\/ GetsResponse(p) /\ IsLimitReached(InnerResponse(p))
                 \/ ReadsSlot(p) /\ primaryPc'[p] = "done")
                   => /\ resetTime' = resetTime
                      /\ totalSleepTime' = totalSleepTime
                      /\ primaryResult'[p].kind = "RateLimitReachedError"
             /\ (GetsOutcome(r) /\ primaryResult[p].kind = "RateLimitReachedError")
                   => /\ result'[r] = [kind |-> "error", resp |-> primaryResult[p]]
                      /\ pc'[r] = "done"
                      /\ forwards' = forwards
                      /\ resetTime' = resetTime
                      /\ totalSleepTime' = totalSleepTime
                      /\ called' = <<>>
      ]_vars

\* both limiters have acted: a cooldown of the secondary limiter is committed, a
\* slot of the primary limiter is set, and r1 got the RateLimitReachedError
C14_Witness ==
    /\ resetTime # NoTime /\ totalSleepTime > 0
    /\ slots["core"] # NoTime
    /\ result["r1"].kind = "error"
    /\ result["r1"].resp.kind = "RateLimitReachedError"
    /\ result["r1"].resp.Category = "core"


\* the error of the inner transport, as RoundTrip of the primary limiter returns it
TransportError == [kind |-> "error"]

\* C16: when the inner transport returns an error, RoundTrip of the primary
\* limiter returns that error and RoundTrip of the secondary limiter above it
\* returns it to the caller; from the error on, neither limiter forwards the
\* request again, changes a slot, a timer, resetTime or totalSleepTime, or runs
\* a callback.
C16_TransportError ==
    [][ \A r \in Reqs :
          LET p == AsPrimary(r)
          IN /\ (EndsForward(p) /\ primaryResult'[p].kind = "error")
                   => /\ primaryResult'[p] = TransportError
                      /\ slots' = slots /\ timers' = timers
                      /\ resetTime' = resetTime /\ totalSleepTime' = totalSleepTime
                      /\ forwards' = forwards
                      /\ called' = <<>>
             /\ (GetsOutcome(r) /\ primaryResult[p].kind = "error")
                   => /\ result'[r] = [kind |-> "error", resp |-> TransportError]
                      /\ pc'[r] = "done"
                      /\ slots' = slots /\ timers' = timers
                      /\ resetTime' = resetTime /\ totalSleepTime' = totalSleepTime
                      /\ forwards' = forwards
                      /\ called' = <<>>
      ]_vars

\* r2 got the error of the inner transport while a slot of the primary limiter
\* is set (its overrides let it pass) and a cooldown of the secondary limiter
\* is committed
C16_Witness ==
    /\ result["r2"] = [kind |-> "error", resp |-> TransportError]
    /\ prevented["p2"]
    /\ slots["core"] # NoTime
    /\ resetTime # NoTime /\ totalSleepTime > 0


\* the options of a list that are of the given type, in their order
OptionsOfType(list, type) ==
    LET of == SelectSeq(list, LAMBDA e : e.type = type)
    IN [i \in 1..Len(of) |-> of[i].option]

\* the list holds an element that is no option of either limiter
HasNoOption(list) ==
    \E i \in 1..Len(list) :
        list[i].type \notin {"PrimaryRateLimiterOption", "SecondaryRateLimiterOption"}

\* C15: New and WithOverrideConfig of both limiters give every element of their
\* list to exactly one limiter: the primary limiter is built with (its
\* overrides are) exactly the primary options of the list, the secondary
\* limiter with exactly the secondary options, in their order; a list with an
\* element that is neither panics, and then no limiter is built (no override
\* is put in the context).
C15_GatherOptions ==
    /\ stage \in {"unbuilt", "New panicked"}
          => /\ options = <<>> /\ primaryOptions = <<>>
             /\ config = newConfig(<<>>)
             /\ primaryConfig = newPrimaryConfig(<<>>, "rateLimiterA")
    /\ stage = "New panicked" => HasNoOption(input.opts)
    /\ stage \in {"built", "WithOverrideConfig panicked"}
          => /\ ~HasNoOption(input.opts)
             /\ primaryOptions = OptionsOfType(input.opts, "PrimaryRateLimiterOption")
             /\ options = OptionsOfType(input.opts, "SecondaryRateLimiterOption")
             /\ Len(primaryOptions) + Len(options) = Len(input.opts)
             /\ primaryConfig = newPrimaryConfig(primaryOptions, "rateLimiterA")
             /\ config = newConfig(options)
    /\ stage = "WithOverrideConfig panicked"
          => /\ HasNoOption(input.overrides)
             /\ overrides = NoOverrides /\ primaryOverrides = NoPrimaryOverrides
    /\ (overrides # NoOverrides \/ primaryOverrides # NoPrimaryOverrides)
          => /\ ~HasNoOption(input.overrides)
             /\ primaryOverrides[AsPrimary(Overridden)] =
                   OptionsOfType(input.overrides, "PrimaryRateLimiterOption")
             /\ overrides[Overridden] =
                   OptionsOfType(input.overrides, "SecondaryRateLimiterOption")
             /\ Len(primaryOverrides[AsPrimary(Overridden)]) + Len(overrides[Overridden])
                   = Len(input.overrides)

\* New was called with an option of each limiter, and then WithOverrideConfig
\* with a list that holds something else
C15_Witness ==
    /\ stage = "WithOverrideConfig panicked"
    /\ Len(primaryOptions) = 1 /\ Len(options) = 1
    /\ Len(input.overrides) = MaxOptions
    /\ input.overrides[1].type = "SecondaryRateLimiterOption"


\* ================================================================ claims, secondary (2)
\* C17: whatever RoundTrip of the secondary limiter returns is what the inner
\* transport gave to that request: its error, returned in the step the
\* transport failed, or a response of it, returned in the step it arrived or,
\* when a sleep limit forbids the sleep, the secondary-limit response the
\* request holds; the limiter returns no error of its own.
C17_NoErrorOfItsOwn ==
    [][ \A r \in Reqs :
          LET d == Decision(getRequestConfig(r), CandidateSleep(r), totalSleepTime)
          IN /\ resp[r] # "none" => resp[r] \in SecondaryTransportResponses
             /\ result'[r] # result[r]
                   => \/ /\ Forwards(r)
                         /\ result'[r] = [kind |-> "error", resp |-> "none"]
                      \/ /\ Forwards(r)
                         /\ result'[r].kind = "response"
                         /\ result'[r].resp \in SecondaryTransportResponses
                      \/ /\ LeavesUpdate(r)
                         /\ d \in {"single", "total"}
                         /\ resp[r] # "none"
                         /\ result'[r] = [kind |-> "response", resp |-> resp[r]]
             /\ (LeavesUpdate(r) /\ d \in {"single", "total"})
                   => result'[r] = [kind |-> "response", resp |-> resp[r]]
      ]_vars

\* one request was given the secondary-limit response a sleep limit stopped it
\* at, the other the error of the inner transport, after a forward each
C17_Witness ==
    /\ result["r1"] = [kind |-> "response", resp |-> "sec1"]
    /\ result["r2"] = [kind |-> "error", resp |-> "none"]
    /\ forwards["r1"] = 1 /\ forwards["r2"] = 1
    /\ resetTime = NoTime


\* ================================================================ claims, classifier
\* the text is an optional sign followed by one or more digits that are all 0
ParsesToZero(text) ==
    LET ds == IF text # <<>> /\ Head(text) \in {"+", "-"} THEN Tail(text) ELSE text
    IN ds # <<>> /\ \A i \in DOMAIN ds : ds[i] = "0"

\* the response under classification is returned to the caller as it arrived
ReturnedAsIs(r) ==
    /\ result'[r] = [kind |-> "response", resp |-> "input"]
    /\ pc'[r] = "done"
    /\ body'[r] = [unread |-> input.body.text, closed |-> FALSE]
    /\ called' = <<>>
    /\ resetTime' = resetTime
    /\ totalSleepTime' = totalSleepTime

\* C18: a response whose status is neither 403 nor 429, or whose
\* x-ratelimit-remaining header parses to the integer 0, is never classified as
\* a secondary limit, whatever its body and its retry-after header; the
\* secondary limiter returns it in the step it arrives, with its body untouched,
\* without a callback, a cooldown or a retry.
C18_NeverSecondary ==
    [][ (input.status \notin {403, 429} \/ ParsesToZero(input.remaining))
            => /\ ~isSecondaryRateLimit(input)
               /\ parseSecondaryLimitTime(input, now) = NoTime
               /\ Forwards(Served) => ReturnedAsIs(Served)
               /\ resetTime = NoTime /\ totalSleepTime = 0
      ]_vars

\* a 429 whose body and retry-after header are those of a secondary limit and
\* whose remaining header is -0 was returned as it arrived
C18_Witness ==
    /\ input.status = 429 /\ input.remaining = <<"-", "0">>
    /\ input.retryAfter = <<"1">>
    /\ input.body = SecondaryBody
    /\ pc[Served] = "done"
    /\ result[Served] = [kind |-> "response", resp |-> "input"]
    /\ body[Served] = BodyOf(input)

\* the response is a candidate: of a limit status and no primary limit
Candidate == input.status \in {403, 429} /\ ~ParsesToZero(input.remaining)

\* the value of the body of the response under classification
ValueOf == Parse(input.body.text)

\* a member is a string that starts with / ends with one of the marks
MessageStarts(m) ==
    m.type = "string" /\ HasPrefix(m.text, SecondaryRateLimitMessage)
DocumentationEnds(m) ==
    /\ m.type = "string"
    /\ \E suffix \in DocumentationSuffixes : HasSuffix(m.text, suffix)

\* the classification shows in what the limiter does with the response
ClassifiedAs(secondary) ==
    /\ isSecondaryRateLimit(input) = secondary
    /\ Forwards(Served)
          => /\ result'[Served].kind # "error"
             /\ (secondary /\ input.retryAfter # <<>>) => pc'[Served] = "update"
             /\ ~secondary
                   => /\ result'[Served] = [kind |-> "response", resp |-> "input"]
                      /\ called' = <<>>
                      /\ resetTime' = resetTime

C20_BodyRestored ==
    (/\ Candidate /\ ~input.body.readErr
     /\ \/ pc[Served] \in {"update", "lock", "locked"}
        \/ pc[Served] = "done" /\ result[Served].kind = "response")
        => /\ body[Served].unread = input.body.text
           /\ ~body[Served].closed

\* a secondary limit with a body of some length was returned to the caller under
\* a single sleep limit, and its body is the one that was sent
C20_Witness ==
    /\ Candidate /\ ~input.body.readErr
    /\ isSecondaryRateLimit(input)
    /\ Len(input.body.text) > 0
    /\ pc[Served] = "done"
    /\ result[Served] = [kind |-> "response", resp |-> "input"]
    /\ Len(called) = 1 /\ called[1].callback = "cbSingle"
    /\ body[Served] = [unread |-> input.body.text, closed |-> FALSE]


\* ================================================================ claims, both limiters (2)
\* a member is a string that starts with / ends with one of the marks
StartsWithMessage(m) ==
    m.type = "string" /\ HasPrefix(m.text, SecondaryRateLimitMessage)
EndsWithSuffix(m) ==
    /\ m.type = "string"
    /\ \E suffix \in DocumentationSuffixes : HasSuffix(m.text, suffix)

\* a 403 whose body is the text of a JSON value that does not match the rules
\* of a secondary limit, and that is no primary limit
PlainForbidden(id) ==
    LET v == Parse(ResponseOf(id).body.text)
    IN /\ ResponseOf(id).status = 403
       /\ ~ResponseOf(id).body.readErr
       /\ v.kind # "invalid"
       /\ ~StartsWithMessage(v.message)
       /\ ~EndsWithSuffix(v.documentation_url)
       /\ ResponseOf(id).remaining # <<"0">>

\* C21: a 403 response whose JSON body does not match the rules of a secondary
\* limit and that is no primary limit goes through the primary limiter and the
\* secondary limiter above it as it is: each returns it in the step it gets it,
\* with the bytes of its body as they were sent, no callback runs, no slot, timer,
\* resetTime or totalSleepTime changes, and the request is not sent again.
C21_ForbiddenPassesThrough ==
    [][ \A r \in Reqs :
          LET p == AsPrimary(r)
          IN /\ (GetsResponse(p) /\ PlainForbidden(InnerResponse(p)))
                   => /\ primaryResult'[p] =
                            [kind |-> "response", response |-> InnerResponse(p)]
                      /\ called' = <<>>
                      /\ slots' = slots /\ slotsB' = slotsB /\ timers' = timers
                      /\ limiter' = limiter
             /\ (/\ GetsOutcome(r) /\ primaryResult[p].kind = "response"
                 /\ PlainForbidden(primaryResult[p].response))
                   => /\ result'[r] =
                            [kind |-> "response", resp |-> primaryResult[p].response]
                      /\ pc'[r] = "done"
                      /\ body'[r].unread = ResponseOf(primaryResult[p].response).body.text
                      /\ ~body'[r].closed
                      /\ called' = <<>>
                      /\ slots' = slots /\ slotsB' = slotsB /\ timers' = timers
                      /\ limiter' = limiter
                      /\ forwards' = forwards
      ]_vars

\* r1 was sent again after the cooldown it committed and got a plain 403 with
\* a retry-after header back, while a slot of the primary limiter is set
C21_Witness ==
    /\ result["r1"] = [kind |-> "response", resp |-> "forbidden"]
    /\ forwards["r1"] = 2
    /\ body["r1"] = BodyOf(ResponseOf("forbidden"))
    /\ resetTime # NoTime /\ totalSleepTime > 0
    /\ slots["core"] # NoTime


\* ================================================================ claims, reset instant
\* the value of a text that is a positive integer (a digit other than 0, with
\* or without a plus sign), 0 for any other text
PositiveIntegerOf(text) ==
    IF \E n \in 1..9 : text \in {<<Digits[n + 1]>>, <<"+", Digits[n + 1]>>}
    THEN CHOOSE n \in 1..9 : text \in {<<Digits[n + 1]>>, <<"+", Digits[n + 1]>>}
    ELSE 0

\* the reset instant of the response drawn when it arrives at t, by the rule:
\* retry-after first, then x-ratelimit-reset, else none
ResetInstantAt(t) ==
    IF PositiveIntegerOf(input.retryAfter) > 0
    THEN t + PositiveIntegerOf(input.retryAfter) * TicksPerSec
    ELSE IF PositiveIntegerOf(input.reset) > 0
    THEN PositiveIntegerOf(input.reset) * TicksPerSec
    ELSE NoTime

\* the request goes on to updateRateLimit with the response and the instant
HeldFor(r, instant) ==
    /\ pc'[r] = "update"
    /\ resp'[r] = "input"
    /\ secondaryLimit'[r] = instant
    /\ result'[r] = NoResult

\* C22: the reset instant of a response classified as a secondary limit is now
\* plus the seconds of retry-after when that is a positive integer; otherwise
\* the Unix time of x-ratelimit-reset when that is a positive integer;
\* otherwise there is none, and the response is returned as it arrived, with no
\* commit, no callback and no retry.
C22_ResetInstant ==
    [][ isSecondaryRateLimit(input) =>
          /\ parseSecondaryLimitTime(input, now) = ResetInstantAt(now)
          /\ Forwards(Served) =>
                IF ResetInstantAt(now) = NoTime
                THEN ReturnedAsIs(Served)
                ELSE HeldFor(Served, ResetInstantAt(now))
      ]_vars

\* a secondary limit with both headers a positive integer was sent again after
\* the cooldown committed for it, and is held for the instant of retry-after as
\* of its second arrival
C22_Witness ==
    /\ isSecondaryRateLimit(input)
    /\ PositiveIntegerOf(input.retryAfter) = 1 /\ PositiveIntegerOf(input.reset) = 2
    /\ forwards[Served] = 2 /\ pc[Served] = "update"
    /\ totalSleepTime > 0
    /\ secondaryLimit[Served] = now + TicksPerSec
    /\ secondaryLimit[Served] > 2 * TicksPerSec

\* the retry-after header is there and is no positive integer
RetryAfterUnusable == input.retryAfter # <<>> /\ PositiveIntegerOf(input.retryAfter) = 0

\* C23 (as amended): a response classified as a secondary limit whose
\* retry-after header is 0, negative or malformed gets no reset instant from
\* that header: when its x-ratelimit-reset header is no positive integer
\* either, it is returned as it arrived and not treated as a limit; when
\* x-ratelimit-reset is a positive integer, that Unix time is the reset instant
\* and the response is treated as a limit.
C23_RetryAfterUnusable ==
    [][ (isSecondaryRateLimit(input) /\ RetryAfterUnusable) =>
          /\ parseRetryAfter(input, now) = NoTime
          /\ (Forwards(Served) /\ PositiveIntegerOf(input.reset) = 0)
                => ReturnedAsIs(Served)
          /\ (Forwards(Served) /\ PositiveIntegerOf(input.reset) > 0)
                => HeldFor(Served, PositiveIntegerOf(input.reset) * TicksPerSec)
      ]_vars

\* C23 as stated: such a response is returned as it arrived, whatever its
\* other headers are.
C23_Original ==
    [][ (isSecondaryRateLimit(input) /\ RetryAfterUnusable) =>
          /\ parseSecondaryLimitTime(input, now) = NoTime
          /\ Forwards(Served) => ReturnedAsIs(Served)
      ]_vars

\* a secondary limit with a retry-after of 0 and an x-ratelimit-reset of 2 made
\* the limiter commit a cooldown up to that Unix time
C23_Witness ==
    /\ isSecondaryRateLimit(input)
    /\ input.retryAfter = <<"0">> /\ input.reset = <<"2">>
    /\ resetTime = 2 * TicksPerSec /\ totalSleepTime > 0
    /\ Len(called) = 1 /\ called[1].callback = "cbDetected"
    /\ called[1].ResetTime = 2 * TicksPerSec


\* ================================================================ claims, category resolver
\* the rules in their order: the method a rule is for ("" for every method),
\* what the path begins with, what it ends with (<<>> for anything), the category
Rule(method, begins, ends, cat) ==
    [method |-> method, begins |-> begins, ends |-> ends, category |-> cat]

Rules ==
    << Rule("", <<"/","s","e","a","r","c","h","/","c","o","d","e">>, <<>>, "code_search"),
       Rule("", <<"/","s","e","a","r","c","h">>, <<>>, "search"),
       Rule("", <<"/","g","r","a","p","h","q","l">>, <<>>, "graphql"),
       Rule("", <<"/","r","e","p","o","s","/">>, <<"/","i","m","p","o","r","t">>, "source_import"),
       Rule("", <<>>, <<"/","a","u","d","i","t","_","l","o","g">>, "audit_log"),
       Rule("POST", <<"/","a","p","p","/","m","a","n","f","i","e","s","t","s","/">>,
            <<"/","c","o","n","v","e","r","s","i","o","n","s">>, "integration_manifest"),
       Rule("POST", <<"/","r","e","p","o","s","/">>,
            <<"/","d","e","p","e","n","d","e","n","c","y","-","g","r","a","p","h","/","s","n","a","p","s","h","o","t","s">>,
            "dependency_snapshots"),
       Rule("POST", <<"/","r","e","p","o","s","/">>,
            <<"/","c","o","d","e","-","s","c","a","n","n","i","n","g","/","s","a","r","i","f","s">>,
            "code_scanning_upload"),
       Rule("POST", <<"/","o","r","g","s","/">>,
            <<"/","a","c","t","i","o","n","s","/","r","u","n","n","e","r","s">>,
            "actions_runner_registration"),
       Rule("POST", <<"/","s","c","i","m">>, <<>>, "scim") >>

\* the path has the start and the end of the rule, and the method is the rule's
RuleMatches(i, method, path) ==
    /\ Rules[i].method \in {"", method}
    /\ Len(path) >= Len(Rules[i].begins)
    /\ \A k \in 1..Len(Rules[i].begins) : path[k] = Rules[i].begins[k]
    /\ Len(path) >= Len(Rules[i].ends)
    /\ \A k \in 1..Len(Rules[i].ends) :
          path[Len(path) - Len(Rules[i].ends) + k] = Rules[i].ends[k]

\* the category of the first rule that matches, core when none does
FirstMatch(method, path) ==
    IF \E i \in DOMAIN Rules : RuleMatches(i, method, path)
    THEN Rules[CHOOSE i \in DOMAIN Rules :
                  /\ RuleMatches(i, method, path)
                  /\ \A j \in 1..(i - 1) : ~RuleMatches(j, method, path)].category
    ELSE "core"

CategoryOfPath(r) == parseCategory(RequestOf(r).Method, RequestOf(r).Path)

\* C25: the slot that gates a request is the one of the category the resolver
\* yields for the method and the URL path of the request: without bypassLimit,
\* a RoundTrip that reads the slots is short-circuited, with that category in
\* its error, when the slot of that category is set, and is forwarded when
\* that slot is empty, whatever the other slots hold.
C25_GatedByPathCategory ==
    [][\A r \in PrimaryReqs :
          LET C == CategoryOfPath(r)
          IN (ReadsSlot(r) /\ ~getPrimaryRequestConfig(r).bypassLimit)
                => IF slots[C] # NoTime
                   THEN /\ primaryPc'[r] = "done"
                        /\ primaryResult'[r].kind = "RateLimitReachedError"
                        /\ primaryResult'[r].Category = C
                   ELSE primaryPc'[r] = "forward"]_vars


\* ================================================================ claims, secondary (3)
\* the request sleeps in its pre-wait and its context is done
CancelledInSleep(r) == pc[r] = "sleep" /\ cancelled[r]

\* C26: a request whose context is cancelled while it sleeps in the pre-wait
\* does not wait for its timer: it can go to the inner transport at once, also
\* while the cooldown it sleeps for is still active; the step that ends its
\* sleep is the forward, the limiter returns no error for the cancellation
\* (what the request returns in that step is what the transport gave), no
\* callback runs and resetTime and totalSleepTime stay as they are.
C26_CancelledSleepForwards ==
    /\ [](\A r \in Reqs :
            (CancelledInSleep(r) /\ forwards[r] < MaxForwards)
                => ENABLED (Forwarded(r) /\ UNCHANGED pc))
    /\ [][\A r \in Reqs :
            (CancelledInSleep(r) /\ pc'[r] # "sleep")
                => /\ Forwards(r)
                   /\ result'[r] \in {NoResult, [kind |-> "error", resp |-> "none"]}
                         \cup {[kind |-> "response", resp |-> id] :
                                  id \in SecondaryTransportResponses}
                   /\ called' = <<>>
                   /\ limiter' = limiter]_vars

\* a request sleeps for a cooldown that is still active, and its context is
\* cancelled
C26_Witness ==
    \E r \in Reqs :
        /\ CancelledInSleep(r)
        /\ resetTime # NoTime /\ readReset[r] = resetTime
        /\ now < resetTime /\ now < wakeAt[r]
        /\ forwards[r] < MaxForwards

\* C27: under every interleaving of the RoundTrips, totalSleepTime never
\* decreases, and a step changes it only as the commit of a request that holds
\* the write lock: the step of updateRateLimit under the lock that also sets
\* resetTime to the reset instant of the request and ends with Unlock.
C27_TotalSleepTimeGrows ==
    [][ /\ totalSleepTime' >= totalSleepTime
        /\ totalSleepTime' # totalSleepTime
              => \E r \in Reqs :
                    /\ lock = r /\ pc[r] = "locked"
                    /\ \A q \in Reqs \ {r} : pc[q] # "locked"
                    /\ LeavesUpdate(r) /\ lock' = NoReq
                    /\ CandidateSleep(r) > 0
                    /\ resetTime' = secondaryLimit[r]
                    /\ totalSleepTime' > totalSleepTime
      ]_vars

\* both requests are in flight and each has committed a cooldown of its own,
\* one after the other, and totalSleepTime holds the sleeps of both
C27_Witness ==
    /\ commitOf["r1"] # NoTime /\ commitOf["r2"] # NoTime
    /\ commitOf["r1"] # commitOf["r2"]
    /\ totalSleepTime = 2 * smoothSleepTime(TicksPerSec)
    /\ resetTime = Max(commitOf["r1"], commitOf["r2"])

\* a committed cooldown is still active
CooldownActive == resetTime # NoTime /\ resetTime > now

\* C30: a request that holds a secondary-limit response and comes to the lock
\* of updateRateLimit while a committed cooldown is still active leaves
\* resetTime and totalSleepTime as they are and runs no callback; it never
\* gets as far as the sleep limits; it is sent again, and the pre-wait of the
\* retry sleeps up to the reset instant of the cooldown that is there.
C30_ActiveCooldownKept ==
    [][\A r \in Reqs :
          /\ (pc[r] = "lock" /\ pc'[r] # "lock" /\ CooldownActive)
                => /\ pc'[r] = "wait"
                   /\ result'[r] = NoResult
                   /\ resetTime' = resetTime
                   /\ totalSleepTime' = totalSleepTime
                   /\ lock' = lock
                   /\ called' = <<>>
          /\ (pc[r] = "wait" /\ pc'[r] = "sleep" /\ CooldownActive)
                => wakeAt'[r] = resetTime
          /\ (pc[r] = "locked" /\ pc'[r] # "locked")
                => (resetTime = NoTime \/ resetTime <= now)]_vars

\* r2, whose single sleep limit of 0 would give the response back, got a
\* secondary limit while the cooldown r1 committed is active, and is about to
\* be sent again (so early that its own reset instant cannot have passed)
C30_Witness ==
    /\ overrides["r2"] # <<>>
    /\ getRequestConfig("r2").singleSleepLimit = 0
    /\ pc["r2"] = "wait" /\ forwards["r2"] = 1 /\ result["r2"] = NoResult
    /\ now < TicksPerSec
    /\ CooldownActive /\ resetTime = commitOf["r1"]
    /\ totalSleepTime = smoothSleepTime(TicksPerSec)


\* ================================================================ claims, primary (3)
\* C28: a slot that holds the reset instant T stays set until the timer
\* started for T fires: a step that clears the slot is the firing of a timer of
\* that category and of that instant, at or after T; the timer of an older
\* instant does not clear a slot that holds a newer one.
C28_SlotHeldUntilItsTimer ==
    [][\A c \in AllCategories :
          (slots[c] # NoTime /\ slots'[c] = NoTime)
             => /\ now >= AsTime(slots[c])
                /\ \E t \in BagToSet(timers) :
                      /\ t.Category = c
                      /\ t.ResetTime = slots[c]
                      /\ timers' = timers (-) SetToBag({t})]_vars

\* C29: a limit-reached response without an x-ratelimit-resource header is
\* recorded in the slot of the category of the request, and the caller gets
\* the RateLimitReachedError of that category.
C29_FallsBackToRequestCategory ==
    [][\A r \in PrimaryReqs :
          (/\ GetsResponse(r)
           /\ IsLimitReached(InnerResponse(r))
           /\ ResponseOf(InnerResponse(r)).resource = "")
             => /\ slots'[CategoryOf(r)] = Atoi(ResponseOf(InnerResponse(r)).reset)
                /\ primaryResult'[r].kind = "RateLimitReachedError"
                /\ primaryResult'[r].Category = CategoryOf(r)]_vars


\* ================================================================ claims, secondary (4)
\* the request leaves the quick check of updateRateLimit
LeavesQuickCheck(r) == pc[r] = "update" /\ pc'[r] # "update"

\* the step sends the request round again and leaves the limiter as it is
RetriesWithoutChanges(r) ==
    /\ pc'[r] = "wait"
    /\ result'[r] = NoResult
    /\ resetTime' = resetTime
    /\ totalSleepTime' = totalSleepTime
    /\ called' = <<>>

\* C31: resetTime is only set by the request that holds the write lock, to
\* the reset instant of its response, and that instant is strictly later than
\* the time of the step; a candidate instant that has passed when the quick
\* check looks at it, or that is not in the future any more under the lock,
\* changes neither resetTime nor totalSleepTime, runs no callback and sends
\* the request round again.
C31_ResetTimeInTheFuture ==
    [][ /\ resetTime' # resetTime
            => \E r \in Reqs :
                  /\ lock = r /\ LeavesUpdate(r)
                  /\ resetTime' = secondaryLimit[r]
                  /\ resetTime' > now
        /\ \A r \in Reqs :
              ((LeavesQuickCheck(r) /\ secondaryLimit[r] < now)
                  \/ (LeavesUpdate(r) /\ secondaryLimit[r] <= now))
                 => RetriesWithoutChanges(r)
      ]_vars

\* a limiter without sleep limits that never committed a cooldown is about to
\* send a request for the second time: the reset instant of its limit response
\* had passed when updateRateLimit looked at it
C31_Witness ==
    \E r \in Reqs :
        /\ Len(options) = 1 /\ overrides[r] = <<>>
        /\ resetTime = NoTime /\ totalSleepTime = 0
        /\ pc[r] = "wait" /\ forwards[r] = 1 /\ result[r] = NoResult
        /\ called = <<>>

\* the event a callback of the config is for
EventOf(c, callback) ==
    CASE callback = c.onLimitDetected -> "detected"
      [] callback = c.onSingleLimitExceeded -> "single"
      [] callback = c.onTotalLimitExceeded -> "total"
      [] OTHER -> "none"

\* C32: every callback of the secondary limiter is run by the request that
\* holds the write lock, and its context carries that request, the response
\* that triggered it and the candidate reset instant parsed from it; the
\* TotalSleepTime that onLimitDetected sees is the total after the smoothed
\* sleep of the cooldown it commits has been added, the one that
\* onSingleLimitExceeded and onTotalLimitExceeded see is the total as it was,
\* which then stays as it is.
C32_CallbackContext ==
    [][\A i \in DOMAIN called' :
          \E r \in Reqs :
              LET ctx == called'[i]
                  event == EventOf(getRequestConfig(r), ctx.callback)
              IN /\ lock = r /\ LeavesUpdate(r)
                 /\ ctx.Request = r
                 /\ ctx.Response = resp[r] /\ resp[r] # "none"
                 /\ ctx.ResetTime = secondaryLimit[r]
                 /\ event \in {"detected", "single", "total"}
                 /\ event = "detected"
                       => /\ ctx.TotalSleepTime
                               = totalSleepTime + smoothSleepTime(CandidateSleep(r))
                          /\ totalSleepTime' = ctx.TotalSleepTime
                          /\ resetTime' = ctx.ResetTime
                 /\ event \in {"single", "total"}
                       => /\ ctx.TotalSleepTime = totalSleepTime
                          /\ totalSleepTime' = totalSleepTime
                          /\ resetTime' = resetTime]_vars

\* onLimitDetected has just run for the second cooldown of the limiter: the
\* total it saw holds the smoothed sleeps of both cooldowns
C32_Witness ==
    /\ Len(called) = 1
    /\ called[1].callback = "cbDetected"
    /\ called[1].ResetTime = resetTime /\ resetTime > now
    /\ called[1].TotalSleepTime = 2 * smoothSleepTime(TicksPerSec)
    /\ totalSleepTime = called[1].TotalSleepTime
    /\ pc[called[1].Request] = "wait"

\* ================================================================ claims, injecter
\* the RoundTrip of the request is over and gave a response, or was never
\* called; a request whose context is cancelled is sent again without a wait,
\* and is looked at for MaxForwards forwards only
Settled(r) ==
    \/ pc[r] = "idle"
    \/ pc[r] = "done" /\ result[r].kind = "response"
    \/ pc[r] = "sleep" /\ cancelled[r] /\ forwards[r] = MaxForwards

\* the step commits a cooldown
Commits == resetTime' # resetTime

\* the step runs onLimitDetected
RunsLimitDetected ==
    \E i \in DOMAIN called' : called'[i].callback = config.onLimitDetected

ReadsLimiter(q) ==
    \/ pc[q] = "wait" /\ pc'[q] # "wait"
    \/ pc[q] = "lock" /\ pc'[q] # "lock"
    \/ pc[q] = "locked" /\ pc'[q] # "locked"

\* C34: a callback of the secondary limiter runs only in a step of the request
\* that holds the write lock, one callback in a step; while a request holds
\* the write lock no other request reads resetTime or totalSleepTime and only
\* the holder changes them; a request holds the lock only between Lock and
\* Unlock of updateRateLimit, so that it sleeps in its pre-wait and calls the
\* inner transport with no lock held.
C34_CallbacksUnderTheLock ==
    /\ [](\A r \in Reqs : lock = r <=> pc[r] = "locked")
    /\ [][ /\ called' # <<>>
              => /\ Len(called') = 1
                 /\ lock # NoReq /\ LeavesUpdate(lock) /\ lock' = NoReq
                 /\ called'[1].Request = lock
           /\ lock # NoReq
              => /\ \A q \in Reqs \ {lock} : ~ReadsLimiter(q)
                 /\ <<resetTime, totalSleepTime>>' # <<resetTime, totalSleepTime>>
                       => LeavesUpdate(lock)
           /\ \A r \in Reqs :
                 (Forwards(r) \/ pc[r] = "sleep" \/ pc'[r] = "sleep")
                    => lock # r /\ lock' # r
         ]_vars

\* a callback of one request has just run under the lock, while the other
\* request, which holds a secondary-limit response of its own, was kept
\* waiting for the lock
C34_Witness ==
    \E r \in Reqs : \E q \in Reqs \ {r} :
        /\ Len(called) = 1 /\ called[1].Request = r
        /\ pc[q] = "lock" /\ secondaryLimit[q] # NoTime
        /\ lock = NoReq

\* ================================================================ claims, sleep smoothing
\* C35: the smoothed sleep of 0 is 0, that of a positive duration below a
\* second is a second, that of a whole number of seconds is the duration
\* itself, and that of any other duration is the duration rounded up to the
\* next whole second.
C35_SmoothedSleep ==
    stage = "committed"
        => totalSleepTime =
              IF input = 0 THEN 0
              ELSE IF input < TicksPerSec THEN TicksPerSec
              ELSE IF input % TicksPerSec = 0 THEN input
              ELSE ((input \div TicksPerSec) + 1) * TicksPerSec

\* the RoundTrip of the request has returned
Returned(r) == pc[r] = "done"

\* the request is not followed any further: its context is cancelled, it was
\* sent MaxForwards times and would be sent again without a wait
CutOff(r) == pc[r] = "sleep" /\ cancelled[r] /\ forwards[r] = MaxForwards

Leaks(r) == pc[r] = "sleep" /\ CooldownActive /\ readReset[r] # resetTime

\* the request holds a secondary-limit response and is on its way to the
\* write lock of updateRateLimit
HoldsLimit(r) == pc[r] \in {"update", "lock"}

\* what C37 says of the limit responses that come in while a cooldown is
\* active: nothing is committed and no callback runs, the request goes round
\* again, and its pre-wait sleeps up to the reset instant of that cooldown
KeepsCooldown(r) ==
    /\ (HoldsLimit(r) /\ CooldownActive)
          => /\ resetTime' = resetTime /\ totalSleepTime' = totalSleepTime
             /\ called' = <<>>
             /\ pc'[r] \in {"update", "lock", "wait"}
             /\ result'[r] = NoResult
    /\ (pc[r] = "wait" /\ pc'[r] = "sleep" /\ forwards[r] > 0 /\ CooldownActive)
          => wakeAt'[r] = resetTime /\ readReset'[r] = resetTime

\* C37 (as amended): a request that did its pre-wait read before a commit is
\* not held back by the cooldown: once its own timer has fired it can go to
\* the inner transport while the cooldown is active. A secondary-limit
\* response that comes in while a cooldown is active neither extends nor
\* replaces it, and the request is sent again only at or after the reset
\* instant its pre-wait read, unless its context is cancelled meanwhile.
C37_Leakage ==
    /\ [](\A r \in Reqs :
            (Leaks(r) /\ now >= wakeAt[r] /\ forwards[r] < MaxForwards)
                => ENABLED (Forwarded(r) /\ UNCHANGED <<pc, resetTime>>))
    /\ [][\A r \in Reqs :
            /\ KeepsCooldown(r)
            /\ (Forwards(r) /\ forwards[r] > 0 /\ readReset[r] # NoTime)
                  => (now >= readReset[r] \/ cancelled[r])]_vars

\* C37 as stated: the request is sent again only after it waited for the
\* cooldown.
C37_Original ==
    /\ [](\A r \in Reqs :
            (Leaks(r) /\ now >= wakeAt[r] /\ forwards[r] < MaxForwards)
                => ENABLED (Forwarded(r) /\ UNCHANGED <<pc, resetTime>>))
    /\ [][\A r \in Reqs :
            /\ KeepsCooldown(r)
            /\ (Forwards(r) /\ forwards[r] > 0 /\ readReset[r] # NoTime)
                  => now >= readReset[r]]_vars

\* a request read an empty resetTime in its pre-wait, the other request then
\* committed a cooldown, and the first is about to go to the inner transport
\* while that cooldown is active
C37_Witness ==
    \E r \in Reqs : \E q \in Reqs \ {r} :
        /\ Leaks(r) /\ readReset[r] = NoTime /\ now >= wakeAt[r]
        /\ forwards[r] = 0 /\ ~cancelled[r]
        /\ commitOf[q] = resetTime /\ pc[q] \in {"wait", "sleep"}

\* the step sends the request to the inner transport again, within the
\* RoundTrip that sent it before
Resends(r) == Forwards(r) /\ forwards[r] > 0

\* the step is the pre-wait read of a retry
RetryReads(r) == pc[r] = "wait" /\ pc'[r] = "sleep" /\ forwards[r] > 0

\* C38 (as amended): the pre-wait of a retry sets its timer to the reset
\* instant of the cooldown that is active at its read, and to no wait at all
\* when none is active (the reset instant of the response had passed and no
\* cooldown was committed meanwhile); the request is sent again when that
\* timer has fired, or at once when its context is cancelled. It is sent again
\* while a cooldown is active only if its context is cancelled or the cooldown
\* was committed after its read.
C38_WaitsBetweenForwards ==
    [][\A r \in Reqs :
          /\ RetryReads(r)
                => wakeAt'[r] = IF CooldownActive THEN resetTime ELSE now
          /\ Resends(r)
                => /\ now >= wakeAt[r] \/ cancelled[r]
                   /\ CooldownActive => (cancelled[r] \/ readReset[r] # resetTime)
      ]_vars

\* C38 as stated: a request is not sent again while a cooldown is active.
C38_Original ==
    [][\A r \in Reqs : Resends(r) => ~CooldownActive]_vars

\* the request committed the only cooldown there was, had its context
\* cancelled, and was sent again before the reset instant of that cooldown: it
\* holds the response of its second forward
C38_Witness ==
    \E r \in Reqs :
        /\ cancelled[r] /\ forwards[r] = 2 /\ pc[r] \in {"update", "lock"}
        /\ commitOf[r] = resetTime /\ now < resetTime
        /\ totalSleepTime = smoothSleepTime(TicksPerSec)

\* ================================================================ claims, primary (4)
\* the x-ratelimit-reset header of the response is missing or malformed, or
\* the instant it gives is not later than the clock
ResetUnusable(id) ==
    LET reset == ParseInt(ResponseOf(id).reset)
    IN ~reset.ok \/ AsTime(reset.val) <= now

\* C39: a step that sets a slot sets it to a reset instant later than the
\* time of the step; a limit-reached response whose x-ratelimit-reset is
\* missing, malformed or not in the future leaves every slot as it is, and the
\* caller gets no RateLimitReachedError with a reset instant that is not in
\* the future.
C39_SlotSetToFutureInstant ==
    [][ /\ \A c \in AllCategories :
              (slots'[c] # slots[c] /\ slots'[c] # NoTime) => AsTime(slots'[c]) > now
        /\ \A r \in PrimaryReqs :
              (/\ GetsResponse(r)
               /\ IsLimitReached(InnerResponse(r))
               /\ ResetUnusable(InnerResponse(r)))
                 => /\ slots' = slots
                    /\ ~(/\ primaryResult'[r].kind = "RateLimitReachedError"
                         /\ primaryResult'[r].ResetTime <= now)
      ]_vars


====
